---- MODULE Spec2Model ----
(***************************************************************************)
(* AnkiDataFrame (ankipandas/ankidf.py): the conversion between the native *)
(* ("anki") and the convenience ("ours") representation of the notes,      *)
(* cards and revs tables, the field sub-format transitions and the         *)
(* operations layered on top of them.                                      *)
(*                                                                         *)
(* A data frame is a record                                                *)
(*   cols  : the ordered column names                                      *)
(*   iname : the name of the index ("" for a default RangeIndex)           *)
(*   idx   : the index values, one per row                                 *)
(*   cells : one function column -> value per row                          *)
(* Text that the code splits or joins (tags, flds, sfld) is a sequence of  *)
(* one-character strings; US stands for the byte 0x1F.                     *)
(***************************************************************************)
EXTENDS Integers, Sequences, FiniteSets, TLC

\* ------------------------------------------------------------------ bounds
MaxRows == 2

\* --------------------------------------------------------- missing values
\* pandas' NaN in an object column and in a numeric column.  NaN is unequal
\* to itself wherever the code compares cells (see CellNe).
NaN == "NaN"
NaNNum == 0 - 99

US == "|"

Range(s) == {s[i] : i \in DOMAIN s}

\* ------------------------------------------------------- column schema
Tables == {"notes", "cards", "revs"}

anki_columns(table) ==
    CASE table = "notes" ->
           <<"id", "guid", "mid", "mod", "usn", "tags", "flds", "sfld",
             "csum", "flags", "data">>
      [] table = "cards" ->
           <<"id", "nid", "did", "ord", "mod", "usn", "type", "queue", "due",
             "ivl", "factor", "reps", "lapses", "left", "odue", "odid",
             "flags", "data">>
      [] table = "revs" ->
           <<"id", "cid", "usn", "ease", "ivl", "lastIvl", "factor", "time",
             "type">>
      [] OTHER -> <<>>

columns_anki2ours(table) ==
    CASE table = "notes" ->
           [id |-> "nid", guid |-> "nguid", mid |-> "mid", mod |-> "nmod",
            usn |-> "nusn", tags |-> "ntags", flds |-> "nflds",
            sfld |-> "nsfld", csum |-> "ncsum", flags |-> "nflags",
            data |-> "ndata"]
      [] table = "cards" ->
           [id |-> "cid", nid |-> "nid", did |-> "did", ord |-> "cord",
            mod |-> "cmod", usn |-> "cusn", type |-> "ctype",
            queue |-> "cqueue", due |-> "cdue", ivl |-> "civl",
            factor |-> "cfactor", reps |-> "creps", lapses |-> "clapses",
            left |-> "cleft", odue |-> "codue", odid |-> "codid",
            flags |-> "cflags", data |-> "cdata"]
      [] table = "revs" ->
           [id |-> "rid", cid |-> "cid", usn |-> "rusn", ease |-> "rease",
            ivl |-> "rivl", lastIvl |-> "rlastivl", factor |-> "rfactor",
            time |-> "rtime", type |-> "rtype"]

invert_dict(m) ==
    [v \in {m[k] : k \in DOMAIN m} |-> CHOOSE k \in DOMAIN m : m[k] = v]

our_columns(table) ==
    CASE table = "notes" ->
           {"nguid", "nmod", "nusn", "ntags", "nflds", "nmodel"}
      [] table = "cards" ->
           {"nid", "cdeck", "cord", "cmod", "cusn", "ctype", "cqueue",
            "cdue", "civl", "cfactor", "creps", "clapses", "cleft", "codue",
            "codeck"}
      [] table = "revs" ->
           {"cid", "rusn", "rease", "rivl", "rlastivl", "rfactor", "rtime",
            "rtype"}

table2index(table) ==
    CASE table = "notes" -> "nid"
      [] table = "cards" -> "cid"
      [] table = "revs" -> "rid"

dtype_casts(table) ==
    CASE table = "notes" -> <<"id", "mid">>
      [] table = "cards" -> <<"id", "nid", "did", "odid">>
      [] table = "revs" -> <<"id", "cid">>

dtype_casts_back(table) == dtype_casts(table)

card_type_map == (0 :> "learning") @@ (1 :> "review") @@ (2 :> "relearn")
                 @@ (3 :> "cram")

card_queue_map == ((0 - 3) :> "sched buried") @@ ((0 - 2) :> "user buried")
                  @@ ((0 - 1) :> "suspended") @@ (0 :> "new")
                  @@ (1 :> "learning") @@ (2 :> "due")
                  @@ (3 :> "in learning")

value_map_columns(table) ==
    CASE table = "cards" -> <<"cqueue", "ctype">>
      [] table = "revs" -> <<"rtype">>
      [] OTHER -> <<>>

value_maps(column) ==
    IF column = "cqueue" THEN card_queue_map ELSE card_type_map

\* ---------------------------------------------------- storage: id resolver
get_mid2model == (11 :> "Basic") @@ (12 :> "Reverse")

get_model2mid == invert_dict(get_mid2model)

get_mid2fields == (11 :> <<"Front", "Back">>) @@ (12 :> <<"Back">>)

get_mid2sortfield == (11 :> 1) @@ (12 :> 0)

get_did2deck == (0 :> "") @@ (1 :> "Default") @@ (2 :> "Spanish")

get_deck2did == invert_dict(get_did2deck)

\* ------------------------------------------------------ field / tag codec
RECURSIVE str_split(_, _)
str_split(s, sep) ==
    IF s = <<>> THEN << <<>> >>
    ELSE LET rest == str_split(Tail(s), sep) IN
         IF Head(s) = sep THEN << <<>> >> \o rest
         ELSE << <<Head(s)>> \o Head(rest) >> \o Tail(rest)

\* faulty variant: the items are concatenated without the separator
RECURSIVE str_join_unseparated(_, _)
str_join_unseparated(lst, sep) ==
    IF lst = <<>> THEN <<>>
    ELSE lst[1] \o str_join_unseparated(Tail(lst), sep)

RECURSIVE str_join(_, _)
str_join(lst, sep) ==
    IF lst = <<>> THEN <<>>
    ELSE IF Len(lst) = 1 THEN lst[1]
    ELSE lst[1] \o <<sep>> \o str_join(Tail(lst), sep)

\* faulty variant: the filter "if item" is missing
split_tags_unfiltered(joined) == str_split(joined, " ")

split_tags(joined) ==
    SelectSeq(str_split(joined, " "), LAMBDA item : item # <<>>)

CharCode(c) ==
    CASE c = "x" -> 1 [] c = "y" -> 2 [] c = "a" -> 3 [] c = "b" -> 4
      [] OTHER -> 5

RECURSIVE field_checksum(_)
field_checksum(s) ==
    IF s = <<>> THEN 0 ELSE (CharCode(Head(s)) + 7 * field_checksum(Tail(s))) % 1000

\* ------------------------------------------------------ data frame helpers
\* Sequencing of statements: the value v of what ran so far is computed once
\* and handed to the next statement F.
Then(v, F(_)) == CHOOSE r \in {F(x) : x \in {v}} : TRUE

NRows(d) == Len(d.idx)

HasCol(d, c) == c \in Range(d.cols)

\* self[c] = vals : replace the column, or append it when it is new
SetCol(d, c, vals) ==
    [cols |-> IF HasCol(d, c) THEN d.cols ELSE Append(d.cols, c),
     iname |-> d.iname,
     idx |-> d.idx,
     cells |-> [r \in DOMAIN d.cells |->
                  [k \in DOMAIN d.cells[r] \cup {c} |->
                     IF k = c THEN vals[r] ELSE d.cells[r][k]]]]

\* self[c] = self[c].map(f) / .apply(f)
MapCol(d, c, f(_)) ==
    SetCol(d, c, [r \in DOMAIN d.cells |-> f(d.cells[r][c])])

\* self.rename(columns=m): labels that are no key of m are kept
RenameCols(d, m) ==
    Then([i \in DOMAIN d.cols |->
            IF d.cols[i] \in DOMAIN m THEN m[d.cols[i]] ELSE d.cols[i]],
         LAMBDA names :
           [cols |-> names,
            iname |-> d.iname,
            idx |-> d.idx,
            cells |-> [r \in DOMAIN d.cells |->
                         [k \in Range(names) |->
                            d.cells[r][d.cols[CHOOSE i \in DOMAIN names :
                                                names[i] = k]]]]])

\* self.drop(S, axis=1)
DropCols(d, S) ==
    [cols |-> SelectSeq(d.cols, LAMBDA c : c \notin S),
     iname |-> d.iname,
     idx |-> d.idx,
     cells |-> [r \in DOMAIN d.cells |->
                  [k \in DOMAIN d.cells[r] \ S |-> d.cells[r][k]]]]

\* self.set_index(c, inplace=True)
SetIndex(d, c) ==
    [cols |-> SelectSeq(d.cols, LAMBDA k : k # c),
     iname |-> c,
     idx |-> [r \in DOMAIN d.cells |-> d.cells[r][c]],
     cells |-> [r \in DOMAIN d.cells |->
                  [k \in DOMAIN d.cells[r] \ {c} |-> d.cells[r][k]]]]

\* Series.map(dict): a value that is no key becomes the missing value
MapDict(m, v, missing) == IF v \in DOMAIN m THEN m[v] ELSE missing

\* ------------------------------------------------------------- state
VARIABLES
    anki_table,     \* self._anki_table
    df,             \* the rows and columns of the AnkiDataFrame
    df_format,      \* self._df_format
    fields_format,  \* self._fields_format
    db_table,       \* the table as stored in the database (native format)
    lastOp,         \* the method called last
    outcome,        \* "ok", "noop" (returned early) or "raised"
    ret,            \* the value the last call returned (<<>> for None)
    entry,          \* the force argument of the last call and the format
                    \* tags it found on entry
    other_arg,      \* the argument other of the last call
    calls           \* what the last write called, in the order of the calls

vars == <<anki_table, df, df_format, fields_format, db_table, lastOp,
          outcome, ret, entry, other_arg, calls>>

\* other = None
NoOther == [given |-> FALSE,
            df |-> [cols |-> <<>>, iname |-> "", idx |-> <<>>,
                    cells |-> <<>>]]

Given(d) == [given |-> TRUE, df |-> d]

\* A conversion in progress: the frame, the field sub-format and whether an
\* exception has been raised so far.
Res(d, ff, ok) == [df |-> d, ff |-> ff, ok |-> ok]

Raise(s) == [s EXCEPT !.ok = FALSE]

\* faulty variant: the check accepts every format tag
_check_df_format_lax(fmt) == TRUE

\* lines 239-254: 'in_progress' raises, and so does every tag that is
\* neither 'anki' nor 'ours' (the None of a blank AnkiDataFrame)
_check_df_format(fmt) == fmt \in {"anki", "ours"}

\* lines 1003-1007 and 1098-1102: a table kind that is none of the three
\* raises in _invalid_table (236-237) before _df_format is assigned; the
\* tag the table is left with.
\* faulty variant: the kind is checked after the tag has been set
_invalid_table_late(fmt) == "in_progress"

_invalid_table(fmt) == fmt

_check_our_format(fmt) == _check_df_format(fmt) /\ fmt = "ours"

\* ---------------------------------------------------------- normalize
norm_dtypes(s, table) ==
    IF ~s.ok THEN s
    ELSE IF \E c \in Range(dtype_casts(table)) : ~HasCol(s.df, c)
         THEN Raise(s)
    ELSE IF \E c \in Range(dtype_casts(table)), r \in DOMAIN s.df.cells :
               s.df.cells[r][c] = NaNNum
         THEN Raise(s)
    ELSE s

norm_rename(s, table) ==
    IF ~s.ok THEN s
    ELSE [s EXCEPT !.df = RenameCols(s.df, columns_anki2ours(table))]

\* faulty variant: a code that is not a key of the map raises
RECURSIVE norm_value_maps_strict(_, _)
norm_value_maps_strict(s, columns) ==
    IF ~s.ok \/ columns = <<>> THEN s
    ELSE IF ~HasCol(s.df, Head(columns)) THEN Raise(s)
    ELSE IF \E r \in DOMAIN s.df.cells :
               s.df.cells[r][Head(columns)]
                 \notin DOMAIN value_maps(Head(columns))
         THEN Raise(s)
    ELSE Then([s EXCEPT !.df = MapCol(s.df, Head(columns),
                   LAMBDA v : MapDict(value_maps(Head(columns)), v, NaN))],
              LAMBDA t : norm_value_maps_strict(t, Tail(columns)))

RECURSIVE norm_value_maps(_, _)
norm_value_maps(s, columns) ==
    IF ~s.ok \/ columns = <<>> THEN s
    ELSE IF ~HasCol(s.df, Head(columns)) THEN Raise(s)
    ELSE Then([s EXCEPT !.df = MapCol(s.df, Head(columns),
                   LAMBDA v : MapDict(value_maps(Head(columns)), v, NaN))],
              LAMBDA t : norm_value_maps(t, Tail(columns)))

norm_index(s, table) ==
    IF ~s.ok THEN s
    ELSE IF ~HasCol(s.df, table2index(table)) THEN Raise(s)
    ELSE [s EXCEPT !.df = SetIndex(s.df, table2index(table))]

norm_deck(s, src, dst, fail, point) ==
    IF ~s.ok THEN s
    ELSE IF ~HasCol(s.df, src) \/ fail = point THEN Raise(s)
    ELSE [s EXCEPT !.df = SetCol(s.df, dst,
            [r \in DOMAIN s.df.cells |->
               MapDict(get_did2deck, s.df.cells[r][src], NaN)])]

norm_model(s, fail) ==
    IF ~s.ok THEN s
    ELSE IF ~HasCol(s.df, "mid") \/ fail = "get_mid2model" THEN Raise(s)
    ELSE [s EXCEPT !.df = SetCol(s.df, "nmodel",
            [r \in DOMAIN s.df.cells |->
               MapDict(get_mid2model, s.df.cells[r]["mid"], NaN)])]

norm_ids(s, table, fail) ==
    IF table = "cards"
    THEN Then(norm_deck(s, "did", "cdeck", fail, "get_did2deck"),
              LAMBDA t : norm_deck(t, "codid", "codeck", fail,
                                   "get_did2deck_2"))
    ELSE IF table = "notes" THEN norm_model(s, fail)
    ELSE s

norm_tags(s, table) ==
    IF ~s.ok \/ table # "notes" THEN s
    ELSE IF ~HasCol(s.df, "ntags") THEN Raise(s)
    ELSE [s EXCEPT !.df = MapCol(s.df, "ntags", split_tags)]

norm_fields(s, table) ==
    IF ~s.ok \/ table # "notes" THEN s
    ELSE IF ~HasCol(s.df, "nflds") THEN Raise(s)
    ELSE [s EXCEPT !.df = MapCol(s.df, "nflds",
                                 LAMBDA v : str_split(v, US)),
                   !.ff = "list"]

norm_drop(s, table) ==
    IF ~s.ok THEN s
    ELSE [s EXCEPT !.df = DropCols(s.df,
                             Range(s.df.cols) \ our_columns(table))]

\* The conversion steps of normalize, lines 1009-1067, from frame d.
normalize_steps(d, ff, table, fail) ==
    Then(Then(Then(Then(Then(Then(Then(Then(Res(d, ff, TRUE),
      LAMBDA s : norm_dtypes(s, table)),
      LAMBDA s : norm_rename(s, table)),
      LAMBDA s : norm_value_maps(s, value_map_columns(table))),
      LAMBDA s : norm_index(s, table)),
      LAMBDA s : norm_ids(s, table, fail)),
      LAMBDA s : norm_tags(s, table)),
      LAMBDA s : norm_fields(s, table)),
      LAMBDA s : norm_drop(s, table))

NormFailPoints(table) ==
    CASE table = "cards" -> {"none", "get_did2deck", "get_did2deck_2"}
      [] table = "notes" -> {"none", "get_mid2model"}
      [] OTHER -> {"none"}

DoneW(op, force, out, r, o, c) ==
    /\ lastOp' = op
    /\ outcome' = out
    /\ ret' = r
    /\ entry' = [force |-> force, df_format |-> df_format,
                 fields_format |-> fields_format]
    /\ other_arg' = o
    /\ calls' = c

DoneO(op, force, out, r, o) == DoneW(op, force, out, r, o, <<>>)

DoneF(op, force, out, r) == DoneO(op, force, out, r, NoOther)

Done(op, out, r) == DoneF(op, FALSE, out, r)

\* lines 996-1001: nothing to do unless forced.
\* faulty variant: the early return is missing
normalize_noop_never(force, fmt) == FALSE

normalize_noop(force, fmt) == ~force /\ fmt = "ours"

\* the format tag normalize leaves: "in_progress" is set in line 1007 and
\* replaced in line 1069, which a raising step never reaches.
\* faulty variant: line 1069 is missing
normalize_exit_stuck(ok) == "in_progress"

normalize_exit(ok) == IF ok THEN "ours" ELSE "in_progress"

normalize(force, fail) ==
    /\ UNCHANGED <<anki_table, db_table>>
    /\ IF ~force /\ ~_check_df_format(df_format)
       THEN /\ DoneF("normalize", force, "raised", <<>>)
            /\ UNCHANGED <<df, df_format, fields_format>>
       ELSE IF normalize_noop(force, df_format)
       THEN /\ DoneF("normalize", force, "noop", <<>>)
            /\ UNCHANGED <<df, df_format, fields_format>>
       ELSE IF anki_table \notin Tables
       THEN /\ DoneF("normalize", force, "raised", <<"Invalid table">>)
            /\ df_format' = _invalid_table(df_format)
            /\ UNCHANGED <<df, fields_format>>
       ELSE \E s \in {normalize_steps(df, fields_format, anki_table, fail)} :
            /\ df' = s.df
            /\ fields_format' = s.ff
            /\ df_format' = normalize_exit(s.ok)
            /\ DoneF("normalize", force, IF s.ok THEN "ok" ELSE "raised",
                     <<>>)

\* ------------------------------------------------- field sub-format
\* self.loc[mask, c] = vals : rows outside the mask keep their value; when
\* the column is new they hold the missing value
LocSet(d, mask, c, vals, missing) ==
    SetCol(d, c, [r \in DOMAIN d.cells |->
                    IF mask[r] THEN vals[r]
                    ELSE IF HasCol(d, c) THEN d.cells[r][c] ELSE missing])

\* Series.unique(): the distinct values in order of first appearance
RECURSIVE unique(_)
unique(s) ==
    IF s = <<>> THEN <<>>
    ELSE LET init == unique(SubSeq(s, 1, Len(s) - 1)) IN
         IF s[Len(s)] \in Range(init) THEN init ELSE Append(init, s[Len(s)])

\* the mid property on a notes table: self["nmodel"].map(model2mid)
mid_of(d) ==
    [r \in DOMAIN d.cells |->
       MapDict(get_model2mid, d.cells[r]["nmodel"], NaNNum)]

\* pd.DataFrame(lists)[i]: the i-th element of a row's list, None when the
\* list is shorter than the longest list of the selection
NoneText == <<"None">>

ListItem(lst, i) == IF i <= Len(lst) THEN lst[i] ELSE NoneText

MaxLen(d, mask, c) ==
    LET lens == {Len(d.cells[r][c]) : r \in {q \in DOMAIN d.cells : mask[q]}}
    IN  IF lens = {} THEN 0 ELSE CHOOSE n \in lens : \A m \in lens : m <= n

\* lines 596-598: a column for every field name that has none yet, filled
\* with the empty string.
\* faulty variant: the new columns hold None
RECURSIVE fac_create_none(_, _, _)
fac_create_none(d, names, prefix) ==
    IF names = <<>> THEN d
    ELSE Then(IF HasCol(d, prefix \o Head(names)) THEN d
              ELSE SetCol(d, prefix \o Head(names),
                          [r \in DOMAIN d.cells |-> NoneText]),
              LAMBDA t : fac_create_none(t, Tail(names), prefix))

RECURSIVE fac_create(_, _, _)
fac_create(d, names, prefix) ==
    IF names = <<>> THEN d
    ELSE Then(IF HasCol(d, prefix \o Head(names)) THEN d
              ELSE SetCol(d, prefix \o Head(names),
                          [r \in DOMAIN d.cells |-> <<>>]),
              LAMBDA t : fac_create(t, Tail(names), prefix))

\* lines 599-606: the i-th element of the lists goes to the i-th field's
\* column, in the rows of the model
RECURSIVE fac_fill(_, _, _, _, _)
fac_fill(s, mask, names, i, prefix) ==
    IF ~s.ok \/ i > Len(names) THEN s
    ELSE IF i > MaxLen(s.df, mask, "nflds") THEN Raise(s)
    ELSE Then([s EXCEPT !.df =
                 LocSet(s.df, mask, prefix \o names[i],
                        [r \in DOMAIN s.df.cells |->
                           ListItem(s.df.cells[r]["nflds"], i)],
                        NaN)],
              LAMBDA t : fac_fill(t, mask, names, i + 1, prefix))

\* the loop over the models in fields_as_columns, lines 590-606
RECURSIVE fac_models(_, _, _, _)
fac_models(s, mids, prefix, fail) ==
    IF ~s.ok \/ mids = <<>> THEN s
    ELSE IF Head(mids) = 0 THEN fac_models(s, Tail(mids), prefix, fail)
    ELSE IF fail = "get_mid2fields"
            \/ Head(mids) \notin DOMAIN get_mid2fields
         THEN Raise(s)
    ELSE Then([r \in DOMAIN s.df.cells |->
                 Head(mids) # NaNNum /\ mid_of(s.df)[r] = Head(mids)],
           LAMBDA mask :
             Then(Then(fac_create(s.df, get_mid2fields[Head(mids)], prefix),
                       LAMBDA d : fac_fill(Res(d, s.ff, TRUE), mask,
                                           get_mid2fields[Head(mids)], 1,
                                           prefix)),
                  LAMBDA t : fac_models(t, Tail(mids), prefix, fail)))

fields_as_columns_prefix == "nfld_"

\* lines 567-584: what fields_as_columns does on finding sub-format ff.
\* faulty variant: an unfinished transition is not detected
fields_as_columns_entry_lax(ff) ==
    IF ff = "columns" THEN "return" ELSE "pass"

fields_as_columns_entry(ff) ==
    CASE ff = "columns" -> "return"
      [] ff = "list" -> "pass"
      [] OTHER -> "raise"

\* fields_as_columns(inplace=True) called on frame d with field sub-format
\* ff while self._df_format is fmt
fields_as_columns_steps(d, ff, fmt, fail) ==
    IF ~_check_our_format(fmt) THEN Res(d, ff, FALSE)
    ELSE IF ~HasCol(d, "nflds") THEN Res(d, ff, FALSE)
    ELSE IF fields_as_columns_entry(ff) = "return" THEN Res(d, ff, TRUE)
    ELSE IF fields_as_columns_entry(ff) = "raise" THEN Res(d, ff, FALSE)
    ELSE IF ~HasCol(d, "nmodel") \/ fail = "get_model2mid"
         THEN Res(d, "in_progress", FALSE)
    ELSE Then(fac_models(Res(d, "in_progress", TRUE), unique(mid_of(d)),
                         fields_as_columns_prefix, fail),
              LAMBDA s : IF ~s.ok THEN s
                         ELSE Res(DropCols(s.df, {"nflds"}), "columns",
                                  TRUE))

\* one pass of the loop body of fields_as_list, lines 655-662, for the
\* rows in mask and the prefixed field names of their model.
\* faulty variant: the columns are dropped at once, which takes them from
\* the models still to come
fal_model_eager(s, mask, fields) ==
    [s EXCEPT !.df =
       DropCols(LocSet(s.df, mask, "nflds",
                       [r \in DOMAIN s.df.cells |->
                          [i \in DOMAIN fields |->
                             s.df.cells[r][fields[i]]]],
                       NaN),
                Range(fields))]

fal_model(s, mask, fields) ==
    [s EXCEPT !.df =
       LocSet(s.df, mask, "nflds",
              [r \in DOMAIN s.df.cells |->
                 [i \in DOMAIN fields |-> s.df.cells[r][fields[i]]]],
              NaN),
     !.drop = s.drop \cup Range(fields)]

\* the loop over the models in fields_as_list, lines 650-662; s.drop
\* collects to_drop
RECURSIVE fal_models(_, _, _, _)
fal_models(s, mids, prefix, fail) ==
    IF ~s.ok \/ mids = <<>> THEN s
    ELSE IF fail = "get_mid2fields"
            \/ Head(mids) \notin DOMAIN get_mid2fields
         THEN Raise(s)
    ELSE Then([i \in DOMAIN get_mid2fields[Head(mids)] |->
                 prefix \o get_mid2fields[Head(mids)][i]],
           LAMBDA fields :
             IF \E i \in DOMAIN fields : ~HasCol(s.df, fields[i])
             THEN Raise(s)
             ELSE Then([r \in DOMAIN s.df.cells |->
                          Head(mids) # NaNNum
                          /\ mid_of(s.df)[r] = Head(mids)],
                    LAMBDA mask :
                      Then(fal_model(s, mask, fields),
                           LAMBDA t : fal_models(t, Tail(mids), prefix,
                                                 fail))))

\* the value the code stores in _fields_format when fields_as_list is done
fields_as_list_done == "fields"

\* lines 634-645: what fields_as_list does on finding sub-format ff
fields_as_list_entry(ff) ==
    CASE ff = "list" -> "return"
      [] ff = "columns" -> "pass"
      [] OTHER -> "raise"

\* fields_as_list(inplace=True)
fields_as_list_steps(d, ff, fmt, fail) ==
    IF ~_check_our_format(fmt) THEN Res(d, ff, FALSE)
    ELSE IF fields_as_list_entry(ff) = "return" THEN Res(d, ff, TRUE)
    ELSE IF fields_as_list_entry(ff) = "raise" THEN Res(d, ff, FALSE)
    ELSE IF ~HasCol(d, "nmodel") \/ fail = "get_model2mid"
         THEN Res(d, "in_progress", FALSE)
    ELSE Then(fal_models([df |-> d, ff |-> "in_progress", ok |-> TRUE,
                          drop |-> {}],
                         unique(mid_of(d)), fields_as_columns_prefix, fail),
              LAMBDA s : IF ~s.ok THEN Res(s.df, s.ff, FALSE)
                         ELSE Res(DropCols(s.df, s.drop),
                                  fields_as_list_done, TRUE))

FieldFailPoints == {"none", "get_model2mid", "get_mid2fields"}

fields_as_columns(fail) ==
    \E s \in {fields_as_columns_steps(df, fields_format, df_format, fail)} :
    /\ UNCHANGED <<anki_table, db_table, df_format>>
    /\ df' = s.df
    /\ fields_format' = s.ff
    /\ Done("fields_as_columns",
            IF ~s.ok THEN "raised"
            ELSE IF fields_format = "columns" THEN "noop" ELSE "ok", <<>>)

fields_as_list(fail) ==
    \E s \in {fields_as_list_steps(df, fields_format, df_format, fail)} :
    /\ UNCHANGED <<anki_table, db_table, df_format>>
    /\ df' = s.df
    /\ fields_format' = s.ff
    /\ Done("fields_as_list",
            IF ~s.ok THEN "raised"
            ELSE IF fields_format = "list" THEN "noop" ELSE "ok", <<>>)

\* ------------------------------------------------------ comparison
\* Columns whose cells are sequences, and columns whose cells are strings;
\* all other columns are numeric.  Only the missing value of the column's
\* kind can occur in a cell.
ListCols == {"ntags", "nflds", "nsfld", "tags", "flds", "sfld"}

StringCols == {"nguid", "nmodel", "cdeck", "codeck", "ctype", "cqueue",
               "rtype", "ndata", "cdata", "guid", "data"}

startswith(c, p) == Len(c) >= Len(p) /\ SubSeq(c, 1, Len(p)) = p

IsMissing(c, v) ==
    IF c \in ListCols \/ startswith(c, fields_as_columns_prefix)
    THEN FALSE
    ELSE IF c \in StringCols THEN v = NaN ELSE v = NaNNum

\* numpy's x != y on two cells: a missing value differs from everything
CellNe(c, x, y) == IsMissing(c, x) \/ IsMissing(c, y) \/ x # y

\* the positions of the rows whose index is in keys, in frame order
RowsIn(d, keys) ==
    SelectSeq([r \in DOMAIN d.idx |-> r], LAMBDA r : d.idx[r] \in keys)

\* was_modified(other, na): ok is FALSE when the comparison raises, val
\* holds one boolean per row of d
rows_differ(d, other, mine, theirs, na) ==
    LET new_bools ==
          [i \in DOMAIN mine |->
             \E j \in DOMAIN d.cols :
                CellNe(d.cols[j], other.cells[theirs[i]][other.cols[j]],
                       d.cells[mine[i]][d.cols[j]])]
        pos(r) == CHOOSE i \in DOMAIN mine : mine[i] = r
    IN  IF Len(d.cols) # Len(other.cols) \/ Len(mine) # Len(theirs)
        THEN [ok |-> FALSE, val |-> <<>>]
        ELSE [ok |-> TRUE,
              val |-> [r \in DOMAIN d.idx |->
                         IF r \in Range(mine) THEN new_bools[pos(r)]
                         ELSE na]]

was_modified(d, other, na) ==
    Then(Range(d.idx) \cap Range(other.idx),
         LAMBDA inters :
           Then(RowsIn(d, inters),
                LAMBDA mine :
                  Then(RowsIn(other, inters),
                       LAMBDA theirs :
                         rows_differ(d, other, mine, theirs, na))))

\* the table reloaded from the database: _table_constructor
reload(stored, table) == normalize_steps(stored, "anki", table, "none").df

\* storage: the keys of the stored table
get_ids(stored) ==
    {stored.cells[r]["id"] : r \in DOMAIN stored.cells}

\* sorted(list(S)) for a set of integers
RECURSIVE sorted(_)
sorted(S) ==
    IF S = {} THEN <<>>
    ELSE LET m == CHOOSE x \in S : \A y \in S : x <= y
         IN  <<m>> \o sorted(S \ {m})

\* faulty variant: the rows whose key is in the reference
was_added_rows_inverted(d, other_nids) ==
    [r \in DOMAIN d.idx |-> d.idx[r] \in other_nids]

\* lines 917-923: self.index.isin(set(self.index) - other_nids)
was_added_rows(d, other_nids) ==
    [r \in DOMAIN d.idx |-> d.idx[r] \in (Range(d.idx) \ other_nids)]

\* faulty variant: the difference is taken the other way round
was_deleted_keys_swapped(d, other_nids) ==
    sorted(Range(d.idx) \ other_nids)

\* lines 941-946: sorted(list(other_nids - set(self.index)))
was_deleted_keys(d, other_nids) ==
    sorted(other_nids \ Range(d.idx))

\* lines 911-915 and 935-939: the keys of the reference, or the id listing
\* of the storage when no reference is given
other_nids_of(o, stored) ==
    IF o.given THEN Range(o.df.idx) ELSE get_ids(stored)

\* the call was_modified(other, na): lines 845-865
call_was_modified(o, na, force, fail) ==
    /\ UNCHANGED <<anki_table, db_table, df, df_format, fields_format>>
    /\ IF ~force /\ ~_check_our_format(df_format)
       THEN DoneO("was_modified", force, "raised", <<>>, o)
       ELSE IF ~o.given /\ fail = "reload"
       THEN DoneO("was_modified", force, "raised", <<>>, o)
       ELSE \E m \in {was_modified(df,
                         IF o.given THEN o.df
                         ELSE reload(db_table, anki_table), na)} :
              DoneO("was_modified", force,
                    IF m.ok THEN "ok" ELSE "raised", m.val, o)

\* the call was_added(other): lines 901-923
call_was_added(o, force, fail) ==
    /\ UNCHANGED <<anki_table, db_table, df, df_format, fields_format>>
    /\ IF ~force /\ ~_check_our_format(df_format)
       THEN DoneO("was_added", force, "raised", <<>>, o)
       ELSE IF ~o.given /\ fail = "get_ids"
       THEN DoneO("was_added", force, "raised", <<>>, o)
       ELSE DoneO("was_added", force, "ok",
                  was_added_rows(df, other_nids_of(o, db_table)), o)

\* the call was_deleted(other): lines 925-946
call_was_deleted(o, force, fail) ==
    /\ UNCHANGED <<anki_table, db_table, df, df_format, fields_format>>
    /\ IF ~force /\ ~_check_our_format(df_format)
       THEN DoneO("was_deleted", force, "raised", <<>>, o)
       ELSE IF ~o.given /\ fail = "get_ids"
       THEN DoneO("was_deleted", force, "raised", <<>>, o)
       ELSE DoneO("was_deleted", force, "ok",
                  was_deleted_keys(df, other_nids_of(o, db_table)), o)

\* ------------------------------------------------------------------ raw
time_time == 9

raw_set_mod(s, table, stored, fail) ==
    IF ~s.ok \/ table \notin {"cards", "notes"} THEN s
    ELSE IF fail = "reload_mod" THEN Raise(s)
    ELSE Then(Then(reload(stored, table),
                   LAMBDA other : was_modified(s.df, other, TRUE)),
              LAMBDA m :
                IF ~m.ok THEN Raise(s)
                ELSE [s EXCEPT !.df =
                        LocSet(s.df, m.val, columns_anki2ours(table)["mod"],
                               [r \in DOMAIN s.df.cells |-> time_time],
                               NaNNum)])

\* faulty variant: no row is stamped
raw_set_usn_skipped(s, table, stored, fail) == s

\* faulty variant: every row is stamped
raw_set_usn_every_row(s, table, stored, fail) ==
    IF ~s.ok THEN s
    ELSE IF fail = "reload_usn" THEN Raise(s)
    ELSE [s EXCEPT !.df =
            SetCol(s.df, columns_anki2ours(table)["usn"],
                   [r \in DOMAIN s.df.cells |-> 0 - 1])]

raw_set_usn(s, table, stored, fail) ==
    IF ~s.ok THEN s
    ELSE IF fail = "reload_usn" THEN Raise(s)
    ELSE Then(Then(reload(stored, table),
                   LAMBDA other : was_modified(s.df, other, TRUE)),
              LAMBDA m :
                IF ~m.ok THEN Raise(s)
                ELSE [s EXCEPT !.df =
                        LocSet(s.df, m.val, columns_anki2ours(table)["usn"],
                               [r \in DOMAIN s.df.cells |-> 0 - 1],
                               NaNNum)])

\* _set_guid: the rows without a guid are selected and generate_guid is
\* applied to the selection; nothing is stored in the frame
raw_set_guid(s, table, fail) ==
    IF ~s.ok \/ table # "notes" THEN s
    ELSE IF ~HasCol(s.df, "nguid") THEN Raise(s)
    ELSE IF (\E r \in DOMAIN s.df.cells : s.df.cells[r]["nguid"] = "")
            /\ fail = "generate_guid"
         THEN Raise(s)
    ELSE s

\* self.reset_index(inplace=True, drop=False)
raw_reset_index(s) ==
    IF ~s.ok THEN s
    ELSE LET d == s.df
             name == IF d.iname # "" THEN d.iname
                     ELSE IF HasCol(d, "index") THEN "level_0" ELSE "index"
         IN  IF HasCol(d, name) THEN Raise(s)
             ELSE [s EXCEPT !.df =
                     [cols |-> <<name>> \o d.cols,
                      iname |-> "",
                      idx |-> [r \in DOMAIN d.idx |-> r - 1],
                      cells |-> [r \in DOMAIN d.cells |->
                                   [k \in DOMAIN d.cells[r] \cup {name} |->
                                      IF k = name THEN d.idx[r]
                                      ELSE d.cells[r][k]]]]]

raw_name2id(s, src, dst, m, fail, point) ==
    IF ~s.ok THEN s
    ELSE IF ~HasCol(s.df, src) \/ fail = point THEN Raise(s)
    ELSE [s EXCEPT !.df = SetCol(s.df, dst,
            [r \in DOMAIN s.df.cells |->
               MapDict(m, s.df.cells[r][src], NaNNum)])]

raw_ids(s, table, fail) ==
    IF table = "cards"
    THEN Then(raw_name2id(s, "cdeck", "did", get_deck2did, fail,
                          "get_deck2did"),
              LAMBDA t : raw_name2id(t, "codeck", "odid", get_deck2did,
                                     fail, "get_deck2did_2"))
    ELSE IF table = "notes"
    THEN raw_name2id(s, "nmodel", "mid", get_model2mid, fail,
                     "get_model2mid")
    ELSE s

\* the function raw calls when the fields are not a list, line 1137
raw_fields_converter(d, ff, fmt, fail) ==
    fields_as_columns_steps(d, ff, fmt, fail)

raw_fields_format(s, table, fail) ==
    IF ~s.ok \/ table # "notes" THEN s
    ELSE Then(IF s.ff # "list"
              THEN raw_fields_converter(s.df, s.ff, "in_progress", fail)
              ELSE s,
              LAMBDA t : IF ~t.ok \/ t.ff # "list" THEN Raise(t) ELSE t)

\* the loop that restores the sort field, lines 1149-1153
RECURSIVE raw_sort_field(_, _)
raw_sort_field(s, mids) ==
    IF ~s.ok \/ mids = <<>> THEN s
    ELSE IF Head(mids) \notin DOMAIN get_mid2sortfield THEN Raise(s)
    ELSE Then([r \in DOMAIN s.df.cells |->
                 Head(mids) # NaNNum /\ s.df.cells[r]["mid"] = Head(mids)],
           LAMBDA mask :
             IF get_mid2sortfield[Head(mids)] + 1
                  > MaxLen(s.df, mask, "nflds")
             THEN Raise(s)
             ELSE Then([s EXCEPT !.df =
                          LocSet(s.df, mask, "nsfld",
                                 [r \in DOMAIN s.df.cells |->
                                    ListItem(s.df.cells[r]["nflds"],
                                       get_mid2sortfield[Head(mids)] + 1)],
                                 NaN)],
                       LAMBDA t : raw_sort_field(t, Tail(mids))))

raw_hashes(s, table, fail) ==
    IF ~s.ok \/ table # "notes" THEN s
    ELSE IF fail = "get_mid2sortfield" THEN Raise(s)
    ELSE Then(raw_sort_field(s, unique([r \in DOMAIN s.df.cells |->
                                          s.df.cells[r]["mid"]])),
              LAMBDA u :
                IF ~u.ok THEN u
                ELSE [u EXCEPT !.df =
                        MapCol(
                          SetCol(u.df, "ncsum",
                            [r \in DOMAIN u.df.cells |->
                               field_checksum(u.df.cells[r]["nflds"][1])]),
                          "nflds", LAMBDA v : str_join(v, US))])

raw_fields(s, table, fail) ==
    Then(raw_fields_format(s, table, fail),
         LAMBDA t : raw_hashes(t, table, fail))

\* lines 1164-1165.
\* faulty variant: the tags are joined by commas
raw_tags_commas(s, table) ==
    IF ~s.ok \/ table # "notes" \/ ~HasCol(s.df, "nflds") THEN s
    ELSE IF ~HasCol(s.df, "ntags") THEN Raise(s)
    ELSE [s EXCEPT !.df = MapCol(s.df, "ntags",
                                 LAMBDA v : str_join(v, ","))]

raw_tags(s, table) ==
    IF ~s.ok \/ table # "notes" \/ ~HasCol(s.df, "nflds") THEN s
    ELSE IF ~HasCol(s.df, "ntags") THEN Raise(s)
    ELSE [s EXCEPT !.df = MapCol(s.df, "ntags",
                                 LAMBDA v : str_join(v, " "))]

RECURSIVE raw_value_maps(_, _)
raw_value_maps(s, columns) ==
    IF ~s.ok \/ columns = <<>> THEN s
    ELSE IF ~HasCol(s.df, Head(columns))
         THEN raw_value_maps(s, Tail(columns))
    ELSE Then(invert_dict(value_maps(Head(columns))),
           LAMBDA inverse :
             Then([s EXCEPT !.df = MapCol(s.df, Head(columns),
                        LAMBDA v : MapDict(inverse, v, NaNNum))],
                  LAMBDA t : raw_value_maps(t, Tail(columns))))

raw_rename(s, table) ==
    IF ~s.ok THEN s
    ELSE [s EXCEPT !.df =
            Then(Then(invert_dict(columns_anki2ours(table)),
                      LAMBDA inverse : RenameCols(s.df, inverse)),
                 LAMBDA d : RenameCols(d, [index |-> "id"]))]

\* faulty variant: a missing id passes the cast
raw_dtypes_unchecked(s, table) ==
    IF ~s.ok THEN s
    ELSE IF \E c \in Range(dtype_casts_back(table)) : ~HasCol(s.df, c)
         THEN Raise(s)
    ELSE s

raw_dtypes(s, table) ==
    IF ~s.ok THEN s
    ELSE IF \E c \in Range(dtype_casts_back(table)) : ~HasCol(s.df, c)
         THEN Raise(s)
    ELSE IF \E c \in Range(dtype_casts_back(table)),
               r \in DOMAIN s.df.cells : s.df.cells[r][c] = NaNNum
         THEN Raise(s)
    ELSE s

\* faulty variant: flags is set to 1
raw_unused_ones(s, table) ==
    IF ~s.ok \/ table \notin {"cards", "notes"} THEN s
    ELSE [s EXCEPT !.df =
            Then(SetCol(s.df, "data", [r \in DOMAIN s.df.cells |-> ""]),
                 LAMBDA d : SetCol(d, "flags",
                                   [r \in DOMAIN d.cells |-> 1]))]

raw_unused(s, table) ==
    IF ~s.ok \/ table \notin {"cards", "notes"} THEN s
    ELSE [s EXCEPT !.df =
            Then(SetCol(s.df, "data", [r \in DOMAIN s.df.cells |-> ""]),
                 LAMBDA d : SetCol(d, "flags",
                                   [r \in DOMAIN d.cells |-> 0]))]

raw_rearrange(s, table) ==
    IF ~s.ok THEN s
    ELSE IF NRows(s.df) # 0
            /\ \E c \in Range(anki_columns(table)) : ~HasCol(s.df, c)
         THEN Raise(s)
    ELSE [s EXCEPT !.df =
            [cols |-> anki_columns(table),
             iname |-> s.df.iname,
             idx |-> s.df.idx,
             cells |-> [r \in DOMAIN s.df.cells |->
                          [k \in Range(anki_columns(table)) |->
                             s.df.cells[r][k]]]]]

\* The conversion steps of raw, lines 1107-1213, from frame d.
raw_steps(d, ff, table, stored, fail) ==
    Then(Then(Then(Then(Then(Then(Then(Then(Then(Then(Then(Then(
      Res(d, ff, TRUE),
      LAMBDA s : raw_set_mod(s, table, stored, fail)),
      LAMBDA s : raw_set_usn(s, table, stored, fail)),
      LAMBDA s : raw_set_guid(s, table, fail)),
      LAMBDA s : raw_reset_index(s)),
      LAMBDA s : raw_ids(s, table, fail)),
      LAMBDA s : raw_fields(s, table, fail)),
      LAMBDA s : raw_tags(s, table)),
      LAMBDA s : raw_value_maps(s, value_map_columns(table))),
      LAMBDA s : raw_rename(s, table)),
      LAMBDA s : raw_dtypes(s, table)),
      LAMBDA s : raw_unused(s, table)),
      LAMBDA s : raw_rearrange(s, table))

RawFailPoints(table) ==
    CASE table = "cards" ->
           {"none", "reload_mod", "reload_usn", "get_deck2did",
            "get_deck2did_2"}
      [] table = "notes" ->
           {"none", "reload_mod", "reload_usn", "generate_guid",
            "get_model2mid", "get_mid2sortfield"}
      [] OTHER -> {"none", "reload_usn"}

\* lines 1091-1096: nothing to do unless forced
\* faulty variant: force does not skip the early return
raw_noop_forced(force, fmt) == fmt = "anki"

raw_noop(force, fmt) == ~force /\ fmt = "anki"

\* the format tag raw leaves: lines 1102 and 1215
raw_exit(ok) == IF ok THEN "anki" ELSE "in_progress"

raw(force, fail) ==
    /\ UNCHANGED <<anki_table, db_table>>
    /\ IF ~force /\ ~_check_df_format(df_format)
       THEN /\ DoneF("raw", force, "raised", <<>>)
            /\ UNCHANGED <<df, df_format, fields_format>>
       ELSE IF raw_noop(force, df_format)
       THEN /\ DoneF("raw", force, "noop", <<>>)
            /\ UNCHANGED <<df, df_format, fields_format>>
       ELSE IF anki_table \notin Tables
       THEN /\ DoneF("raw", force, "raised", <<"Invalid table">>)
            /\ df_format' = _invalid_table(df_format)
            /\ UNCHANGED <<df, fields_format>>
       ELSE \E s \in {raw_steps(df, fields_format, anki_table, db_table,
                                fail)} :
            /\ df' = s.df
            /\ fields_format' = s.ff
            /\ df_format' = raw_exit(s.ok)
            /\ DoneF("raw", force, IF s.ok THEN "ok" ELSE "raised", <<>>)

\* ------------------------------------------------------- inplace=False
\* lines 989-992 and 1084-1087: df = self.copy() carries the cells and,
\* through _constructor (lines 79-94), every attribute; the conversion runs
\* on df, so self is what it was.
\* faulty variant: df is self itself, not a copy
copy_is_self(self, converted) == converted

copy(self, converted) == self

Table(d, fmt, ff, table) ==
    [df |-> d, df_format |-> fmt, fields_format |-> ff, anki_table |-> table]

\* the outcome of df.normalize(inplace=True, force=force) or
\* df.raw(inplace=True, force=force) on the copy: lines 994-1069, 1089-1215
converted_copy(which, force, fail) ==
    IF ~force /\ ~_check_df_format(df_format)
    THEN [ok |-> FALSE,
          t |-> Table(df, df_format, fields_format, anki_table)]
    ELSE IF (which = "normalize" /\ normalize_noop(force, df_format))
            \/ (which = "raw" /\ raw_noop(force, df_format))
    THEN [ok |-> TRUE,
          t |-> Table(df, df_format, fields_format, anki_table)]
    ELSE IF anki_table \notin Tables
    THEN [ok |-> FALSE,
          t |-> Table(df, _invalid_table(df_format), fields_format,
                      anki_table)]
    ELSE LET s == IF which = "normalize"
                  THEN normalize_steps(df, fields_format, anki_table, fail)
                  ELSE raw_steps(df, fields_format, anki_table, db_table,
                                 fail)
         IN [ok |-> s.ok,
             t |-> Table(s.df,
                         IF which = "normalize" THEN normalize_exit(s.ok)
                         ELSE raw_exit(s.ok),
                         s.ff, anki_table)]

\* normalize(inplace=False, force) and raw(inplace=False, force): the
\* converted copy is returned, an exception leaves nothing to return
inplace_false(which, force, fail) ==
    /\ UNCHANGED <<anki_table, db_table>>
    /\ \E c \in {converted_copy(which, force, fail)} :
       \E me \in {copy(Table(df, df_format, fields_format, anki_table),
                       c.t)} :
          /\ df' = me.df
          /\ df_format' = me.df_format
          /\ fields_format' = me.fields_format
          /\ DoneF(IF which = "normalize" THEN "normalize(inplace=False)"
                   ELSE "raw(inplace=False)",
                   force, IF c.ok THEN "ok" ELSE "raised",
                   IF c.ok THEN <<c.t>> ELSE <<>>)

\* ---------------------------------------------------------------- write
\* storage: raw.set_table(db, df, table, mode).  The stored table is kept
\* in the order of its keys.  update overwrites the rows whose key is
\* stored, append inserts the rows whose key is not stored, replace does
\* both and deletes the stored rows whose key is not in df.
StoredRow(t, k) ==
    t.cells[CHOOSE r \in DOMAIN t.cells : t.cells[r]["id"] = k]

set_table_keep(old_ids, new_ids, mode) ==
    CASE mode = "update" -> old_ids
      [] mode = "append" -> old_ids \cup new_ids
      [] OTHER -> new_ids

set_table_taken(old_ids, new_ids, mode) ==
    CASE mode = "update" -> old_ids \cap new_ids
      [] mode = "append" -> new_ids \ old_ids
      [] OTHER -> new_ids

set_table(stored, new, mode) ==
    Then(sorted(set_table_keep(get_ids(stored), get_ids(new), mode)),
         LAMBDA keys :
           Then(set_table_taken(get_ids(stored), get_ids(new), mode),
                LAMBDA taken :
                  [cols |-> stored.cols,
                   iname |-> stored.iname,
                   idx |-> [i \in DOMAIN keys |-> i - 1],
                   cells |-> [i \in DOMAIN keys |->
                                IF keys[i] \in taken
                                THEN StoredRow(new, keys[i])
                                ELSE StoredRow(stored, keys[i])]]))

WriteModes == {"update", "append", "replace"}

\* self.raw() in line 1238: inplace=False, so a copy is converted (lines
\* 1084-1087) and self keeps its rows and its format tags
raw_copy(d, ff, fmt, table, stored, fail) ==
    IF ~_check_df_format(fmt) THEN Res(d, ff, FALSE)
    ELSE IF raw_noop(FALSE, fmt) THEN Res(d, ff, TRUE)
    ELSE IF table \notin Tables THEN Res(d, ff, FALSE)
    ELSE raw_steps(d, ff, table, stored, fail)

\* faulty variant: the table is handed to the storage first
write_calls_early(backed_up, converted) ==
    <<"set_table">>
    \o (IF backed_up THEN <<"backup_db">> ELSE <<>>)
    \o (IF backed_up THEN <<"raw">> ELSE <<>>)

\* faulty variant: the keys to delete are computed before set_table
write_calls_deleting(backed_up, converted) ==
    (IF backed_up THEN <<"backup_db", "raw">> ELSE <<"backup_db">>)
    \o (IF backed_up /\ converted THEN <<"was_deleted", "set_table">>
        ELSE <<>>)

\* the calls of lines 1234-1238 in their order: backup_db, then the
\* arguments of set_table, of which self.raw() is one, then set_table
write_calls(backed_up, converted) ==
    (IF backed_up THEN <<"backup_db", "raw">> ELSE <<"backup_db">>)
    \o (IF backed_up /\ converted THEN <<"set_table">> ELSE <<>>)

\* the calls of write that raise: the backup, one storage query of the
\* conversion, and set_table
WriteFailPoints == {"none", "backup_db", "reload_usn", "set_table"}

\* write(mode), lines 1220-1238; mode is kept in ret
write(mode, fail) ==
    /\ UNCHANGED <<anki_table, df, df_format, fields_format>>
    /\ IF fail = "backup_db"
       THEN /\ db_table' = db_table
            /\ DoneW("write", FALSE, "raised", <<mode>>, NoOther,
                     write_calls(FALSE, FALSE))
       ELSE \E s \in {raw_copy(df, fields_format, df_format, anki_table,
                                db_table, fail)} :
            IF ~s.ok
            THEN /\ db_table' = db_table
                 /\ DoneW("write", FALSE, "raised", <<mode>>, NoOther,
                          write_calls(TRUE, FALSE))
            ELSE IF fail = "set_table"
            THEN /\ db_table' = db_table
                 /\ DoneW("write", FALSE, "raised", <<mode>>, NoOther,
                          write_calls(TRUE, TRUE))
            ELSE /\ db_table' = set_table(db_table, s.df, mode)
                 /\ DoneW("write", FALSE, "ok", <<mode>>, NoOther,
                          write_calls(TRUE, TRUE))

\* ------------------------------------------------------- quick access
\* the rid property: no format check
rid ==
    /\ UNCHANGED <<anki_table, db_table, df, df_format, fields_format>>
    /\ IF anki_table = "revs" THEN Done("rid", "ok", df.idx)
       ELSE IF HasCol(df, "rid")
       THEN Done("rid", "ok", [r \in DOMAIN df.cells |-> df.cells[r]["rid"]])
       ELSE Done("rid", "raised", <<>>)

\* storage: raw.get_cid2nid, raw.get_nid2mid and raw.get_cid2did, the maps
\* from the cards and notes tables of the database
raw_get(query) ==
    CASE query = "cid2nid" -> (1 :> 1)
      [] query = "nid2mid" -> (1 :> 11)
      [] OTHER -> (1 :> 1)

\* the properties nid (269-289), cid (302-322), mid (369-387), did
\* (398-417) and odid (428-450): each calls _check_our_format first
RECURSIVE id_property(_, _, _, _)
id_property(name, d, fmt, table) ==
    LET Col(c) == [r \in DOMAIN d.cells |-> d.cells[r][c]]
        Raised == [ok |-> FALSE, val |-> <<>>]
        Ok(v) == [ok |-> TRUE, val |-> v]
        Map(m, v) == [r \in DOMAIN v |-> MapDict(m, v[r], NaNNum)]
        Via(m, inner) == IF inner.ok THEN Ok(Map(m, inner.val)) ELSE Raised
    IN
    IF ~_check_our_format(fmt) THEN Raised
    ELSE CASE name = "nid" ->
                IF table = "notes" THEN Ok(d.idx)
                ELSE IF HasCol(d, "nid") THEN Ok(Col("nid"))
                ELSE IF table = "cards" THEN Raised
                ELSE Via(raw_get("cid2nid"),
                         id_property("cid", d, fmt, table))
           [] name = "cid" ->
                IF table = "cards" THEN Ok(d.idx)
                ELSE IF table = "revs" /\ HasCol(d, "cid") THEN Ok(Col("cid"))
                ELSE Raised
           [] name = "mid" ->
                IF HasCol(d, "nmodel") THEN Ok(mid_of(d))
                ELSE IF table = "notes" THEN Raised
                ELSE Via(raw_get("nid2mid"),
                         id_property("nid", d, fmt, table))
           [] name = "did" ->
                IF table = "cards"
                THEN IF HasCol(d, "cdeck")
                     THEN Ok(Map(get_deck2did, Col("cdeck")))
                     ELSE Raised
                ELSE IF table = "notes" THEN Raised
                ELSE Via(raw_get("cid2did"),
                         id_property("cid", d, fmt, table))
           [] OTHER ->
                IF table = "cards"
                THEN IF HasCol(d, "odeck")
                     THEN Ok(Map(get_deck2did, Col("odeck")))
                     ELSE Raised
                ELSE IF table = "revs"
                THEN IF HasCol(d, "odeck")
                     THEN Ok(Map(get_deck2did, Col("odeck")))
                     ELSE Ok(<<>>)
                ELSE Raised

IdProperties == {"nid", "cid", "mid", "did", "odid"}

get(name) ==
    /\ UNCHANGED <<anki_table, db_table, df, df_format, fields_format>>
    /\ \E p \in {id_property(name, df, df_format, anki_table)} :
          Done(name, IF p.ok THEN "ok" ELSE "raised", p.val)

\* list_tags: every item of every cell of ntags, without duplicates (the
\* caller receives them sorted; ret holds the set of them)
list_tags ==
    /\ UNCHANGED <<anki_table, db_table, df, df_format, fields_format>>
    /\ IF ~HasCol(df, "ntags") THEN Done("list_tags", "raised", <<>>)
       ELSE Done("list_tags", "ok",
                 <<UNION {Range(df.cells[r]["ntags"]) :
                            r \in DOMAIN df.cells}>>)

\* the mid setter, lines 389-396: self["mid"] = value, with a warning on a
\* notes table; no format check.  On a table in 'ours' format this adds a
\* column that is no column of the format.
mid_setter(value) ==
    /\ df' = SetCol(df, "mid", [r \in DOMAIN df.cells |-> value])
    /\ UNCHANGED <<anki_table, db_table, df_format, fields_format>>
    /\ Done("mid.setter", "ok", <<>>)

\* ------------------------------------------------------------------ tags
\* s < t for two Python strings over the letters used as tags
RECURSIVE str_lt(_, _)
str_lt(s, t) ==
    LET ord(c) == CHOOSE i \in 1..3 : <<"a", "b", "c">>[i] = c IN
    IF t = <<>> THEN FALSE
    ELSE IF s = <<>> THEN TRUE
    ELSE IF Head(s) = Head(t) THEN str_lt(Tail(s), Tail(t))
    ELSE ord(Head(s)) < ord(Head(t))

\* line 794: other + sorted(list(set(tags) - set(other)))
\* faulty variant: the tags the row carries are not taken out
_add_tags_all(other, tags) ==
    LET new == Range(tags) IN
    other \o (CHOOSE q \in [1..Cardinality(new) -> new] :
                 \A i, j \in DOMAIN q : i < j => str_lt(q[i], q[j]))

_add_tags(other, tags) ==
    LET new == Range(tags) \ Range(other) IN
    other \o (CHOOSE q \in [1..Cardinality(new) -> new] :
                 \A i, j \in DOMAIN q : i < j => str_lt(q[i], q[j]))

\* faulty variant: only the first of the given tags is removed
_remove_tags_first(other, tags) ==
    SelectSeq(other, LAMBDA tag : tags = <<>> \/ tag # tags[1])

\* lines 820-821: [tag for tag in other if tag not in tags]
_remove_tags(other, tags) ==
    SelectSeq(other, LAMBDA tag : tag \notin Range(tags))

\* tags=None
NoTags == [given |-> FALSE, val |-> <<>>]

\* has_tag(tags), lines 729-738, and has_tags(tags), lines 759-767, on a
\* table in 'ours' format that has the column ntags: one boolean per row
has_tag(d, tags) ==
    [r \in DOMAIN d.cells |->
       IF tags.given
       THEN Range(tags.val) \cap Range(d.cells[r]["ntags"]) # {}
       ELSE d.cells[r]["ntags"] # <<>>]

has_tags(d, tags) ==
    IF ~tags.given THEN has_tag(d, tags)
    ELSE [r \in DOMAIN d.cells |->
            Range(tags.val) \subseteq Range(d.cells[r]["ntags"])]

\* add_tag and remove_tag share their frame: the format check, the copy
\* when inplace is false, the check of the tag column, then the new column
tag_call(name, inplace, changed) ==
    /\ UNCHANGED <<anki_table, db_table, df_format, fields_format>>
    /\ IF ~_check_our_format(df_format) \/ ~HasCol(df, "ntags")
       THEN /\ UNCHANGED df
            /\ Done(name, "raised", <<>>)
       ELSE /\ df' = IF inplace THEN changed ELSE df
            /\ Done(name, "ok", IF inplace THEN <<>> ELSE <<changed>>)

\* add_tag(tags, inplace), lines 769-795
add_tag(tags, inplace) ==
    tag_call("add_tag", inplace,
             IF Len(tags) = 0 \/ ~HasCol(df, "ntags") THEN df
             ELSE MapCol(df, "ntags", LAMBDA other : _add_tags(other, tags)))

\* remove_tag(tags, inplace), lines 797-825
remove_tag(tags, inplace) ==
    tag_call("remove_tag", inplace,
             IF ~HasCol(df, "ntags") THEN df
             ELSE IF tags.given
             THEN MapCol(df, "ntags",
                         LAMBDA other : _remove_tags(other, tags.val))
             ELSE MapCol(df, "ntags", LAMBDA other : <<>>))

\* ------------------------------------------------------------ add_notes
\* _get_id: the clock reading t, incremented while it is in the index
_get_id(d, t) ==
    CHOOSE i \in t..(t + NRows(d)) :
       /\ i \notin Range(d.idx)
       /\ \A j \in t..(i - 1) : j \in Range(d.idx)

HasDuplicates(seq) == \E i, j \in DOMAIN seq : i # j /\ seq[i] = seq[j]

\* the value of column c in the j-th new row: known_columns, lines
\* 1444-1474, and the missing value for any other column
new_cell(c, j, ff, req, keys, nid, guid) ==
    CASE c = "nmodel" -> req.model
      [] c = "ntags" -> req.tags[j]
      [] c = "nguid" -> guid[j]
      [] c = "nmod" -> req.mod[j]
      [] c = "nusn" -> 0 - 1
      [] c = "nflds" /\ ff = "list" ->
           [k \in DOMAIN keys |-> req.fields[k][j]]
      [] ff = "columns" /\ startswith(c, fields_as_columns_prefix) ->
           IF \E k \in DOMAIN keys : fields_as_columns_prefix \o keys[k] = c
           THEN req.fields[CHOOSE k \in DOMAIN keys :
                             fields_as_columns_prefix \o keys[k] = c][j]
           ELSE <<>>
      [] OTHER -> IF c \in StringCols \/ c \in ListCols THEN NaN ELSE NaNNum

\* the columns known_columns holds for the new rows
known_columns(ff, keys) ==
    <<"nmodel", "ntags", "nguid", "nmod", "nusn">>
    \o (IF ff = "list" THEN <<"nflds">>
        ELSE [k \in DOMAIN keys |-> fields_as_columns_prefix \o keys[k]])

\* self.append(add), lines 1476-1486: the new rows follow the old ones, a
\* column only the new rows have is missing in the old ones, and the index
\* loses its name because the index of add has none
\* faulty variant: the rows are renumbered (append with ignore_index)
append_notes_renumbered(d, ff, req, keys, nid, guid) ==
    Then(d.cols \o SelectSeq(known_columns(ff, keys),
                             LAMBDA c : ~HasCol(d, c)),
         LAMBDA cols :
           [cols |-> cols,
            iname |-> "",
            idx |-> [r \in 1..(NRows(d) + Len(nid)) |-> r - 1],
            cells |->
              [r \in DOMAIN d.cells |->
                 [c \in Range(cols) |->
                    IF HasCol(d, c) THEN d.cells[r][c]
                    ELSE IF c \in StringCols \/ c \in ListCols THEN NaN
                    ELSE NaNNum]]
              \o [j \in DOMAIN nid |->
                    [c \in Range(cols) |->
                       new_cell(c, j, ff, req, keys, nid, guid)]]])

append_notes(d, ff, req, keys, nid, guid) ==
    Then(d.cols \o SelectSeq(known_columns(ff, keys),
                             LAMBDA c : ~HasCol(d, c)),
         LAMBDA cols :
           [cols |-> cols,
            iname |-> "",
            idx |-> d.idx \o nid,
            cells |->
              [r \in DOMAIN d.cells |->
                 [c \in Range(cols) |->
                    IF HasCol(d, c) THEN d.cells[r][c]
                    ELSE IF c \in StringCols \/ c \in ListCols THEN NaN
                    ELSE NaNNum]]
              \o [j \in DOMAIN nid |->
                    [c \in Range(cols) |->
                       new_cell(c, j, ff, req, keys, nid, guid)]]])

\* add_notes(model, fields, tags=..., nid=..., guid=..., mod=...) with
\* fields given as a list of lists; a request without the entry tags or mod
\* leaves that argument None.  ticks are the clock readings of _get_id and
\* gen the values generate_guid returns.  ok is FALSE when the call raises.
add_notes_steps(d, ff, fmt, table, req, ticks, gen, fail) ==
    IF ~_check_our_format(fmt) \/ table # "notes"
       \/ fail = "get_model2mid" \/ req.model \notin DOMAIN get_model2mid
       \/ fail = "get_mid2fields"
    THEN [ok |-> FALSE, df |-> d, nid |-> <<>>]
    ELSE LET keys == get_mid2fields[get_model2mid[req.model]]
             lengths == {Len(req.fields[k]) : k \in DOMAIN req.fields}
             n_notes == CHOOSE n \in lengths : TRUE
             nid == IF req.nid.given THEN req.nid.val
                    ELSE [j \in 1..n_notes |-> _get_id(d, ticks[j])]
             guid == IF req.guid.given THEN req.guid.val
                     ELSE [j \in 1..n_notes |-> gen[j]]
             tags == IF "tags" \in DOMAIN req THEN req.tags
                     ELSE [j \in 1..n_notes |-> <<>>]
             mod == IF "mod" \in DOMAIN req THEN req.mod
                    ELSE [j \in 1..n_notes |-> time_time]
         IN
         IF Len(req.fields) # Len(keys) \/ Cardinality(lengths) # 1
         THEN [ok |-> FALSE, df |-> d, nid |-> <<>>]
         ELSE IF Len(tags) # n_notes
         THEN [ok |-> FALSE, df |-> d, nid |-> <<>>]
         ELSE IF Len(nid) # n_notes
                 \/ Range(nid) \cap Range(d.idx) # {}
                 \/ HasDuplicates(nid)
         THEN [ok |-> FALSE, df |-> d, nid |-> <<>>]
         ELSE IF Len(mod) # n_notes \/ Len(guid) # n_notes
         THEN [ok |-> FALSE, df |-> d, nid |-> <<>>]
         ELSE IF ~HasCol(d, "nguid")
                 \/ \E j \in DOMAIN guid, r \in DOMAIN d.cells :
                       guid[j] = d.cells[r]["nguid"]
         THEN [ok |-> FALSE, df |-> d, nid |-> <<>>]
         ELSE IF ff \notin {"list", "columns"}
         THEN [ok |-> FALSE, df |-> d, nid |-> <<>>]
         ELSE [ok |-> TRUE,
               df |-> append_notes(d, ff,
                                   [model |-> req.model,
                                    fields |-> req.fields,
                                    tags |-> tags, mod |-> mod],
                                   keys, nid, guid),
               nid |-> nid]

MaxNew == 1

NoNid == [given |-> FALSE, val |-> <<>>]

GivenNid(ids) == [given |-> TRUE, val |-> ids]

\* guid=None, and guid given as a list
NoGuid == [given |-> FALSE, val |-> <<>>]

GivenGuid(g) == [given |-> TRUE, val |-> g]

AddRequests ==
    { [model |-> "Basic", fields |-> << <<<<"x">>>>, <<<<"y">>>> >>,
       nid |-> NoNid, guid |-> NoGuid],
      [model |-> "Reverse", fields |-> << <<<<"x">>>> >>, nid |-> NoNid,
       guid |-> NoGuid],
      [model |-> "Reverse", fields |-> << <<<<"y">>>> >>,
       nid |-> GivenNid(<<1>>), guid |-> NoGuid],
      [model |-> "Basic", fields |-> << <<<<"x">>>> >>, nid |-> NoNid,
       guid |-> NoGuid],
      [model |-> "Cloze", fields |-> << <<<<"x">>>> >>, nid |-> NoNid,
       guid |-> NoGuid] }

\* a note added with guid=[""]: the caller leaves the guid empty
GuidRequests ==
    { [model |-> "Reverse", fields |-> << <<<<"x">>>> >>, nid |-> NoNid,
       guid |-> GivenGuid(<<"">>)] }

Clock == {2}

NewGuids == {"n1"}

AddFailPoints == {"none", "get_model2mid", "get_mid2fields"}

add_notes(req, ticks, gen, inplace, fail) ==
    \E s \in {add_notes_steps(df, fields_format, df_format, anki_table, req,
                              ticks, gen, fail)} :
       /\ s.ok => NRows(s.df) <= MaxRows
       /\ UNCHANGED <<anki_table, db_table, df_format, fields_format>>
       /\ df' = IF s.ok /\ inplace THEN s.df ELSE df
       /\ Done("add_notes", IF s.ok THEN "ok" ELSE "raised",
               IF ~s.ok THEN <<>>
               ELSE IF inplace THEN s.nid
               ELSE <<Table(s.df, df_format, fields_format, anki_table)>>)

\* ------------------------------------------------------ the stored table
TagStrings == { <<" ", "a">>, <<"a", " ", "b">> }

FieldLists == { <<<<>>, <<"x">>>>, <<<<"y">>>> }

InitGuid == <<"g1", "g2", "g3", "g4">>

\* what the unused columns flags and data hold in the stored row r
Legacy(r) == IF r % 2 = 1 THEN [flags |-> 1, data |-> "d"]
             ELSE [flags |-> 0, data |-> ""]

\* a stored note; when derived holds, sfld and csum are what raw computes
\* from the fields, otherwise they are values written by another program
NoteRow(id, flds, tags, leg, derived) ==
    LET mid == IF Len(flds) = 2 THEN 11 ELSE 12 IN
    [id |-> id, guid |-> InitGuid[id], mid |-> mid, mod |-> 5, usn |-> 0,
     tags |-> tags, flds |-> str_join(flds, US),
     sfld |-> IF derived THEN flds[get_mid2sortfield[mid] + 1]
              ELSE <<"s">>,
     csum |-> IF derived THEN field_checksum(flds[1]) ELSE 7,
     flags |-> leg.flags, data |-> leg.data]

CardRow(id, did, type, queue, leg) ==
    [id |-> id, nid |-> 1, did |-> did, ord |-> 0, mod |-> 5, usn |-> 0,
     type |-> type, queue |-> queue, due |-> 0, ivl |-> 0, factor |-> 0,
     reps |-> 0, lapses |-> 0, left |-> 0, odue |-> 0, odid |-> 0,
     flags |-> leg.flags, data |-> leg.data]

RevRow(id, ease, type) ==
    [id |-> id, cid |-> 1, usn |-> 0, ease |-> ease, ivl |-> 0,
     lastIvl |-> 0, factor |-> 0, time |-> 0, type |-> type]

NativeFrame(table, rows) ==
    [cols |-> anki_columns(table),
     iname |-> "",
     idx |-> [r \in DOMAIN rows |-> r - 1],
     cells |-> rows]

StoredTables(table) ==
    CASE table = "notes" ->
           UNION {
             { [r \in 1..n |->
                  NoteRow(r, f[r], t, Legacy(r), r > 1 \/ d)] :
                 f \in [1..n -> FieldLists], t \in TagStrings,
                 d \in BOOLEAN }
             : n \in 0..MaxRows }
      [] table = "cards" ->
           UNION {
             { [r \in 1..n |-> CardRow(r, d, ty[r], 0 - 1, Legacy(r))] :
                 d \in {1, 2}, ty \in [1..n -> {1, 9}] }
             : n \in 0..MaxRows }
      [] table = "revs" ->
           UNION {
             { [r \in 1..n |-> RevRow(r, 3, ty[r])] :
                 ty \in [1..n -> {0, 9}] }
             : n \in 0..MaxRows }

\* ------------------------------------------------- reference tables
\* The tables a caller passes as other: derived from the table d at hand.
SelectRows(d, rows) ==
    [cols |-> d.cols, iname |-> d.iname,
     idx |-> [i \in DOMAIN rows |-> d.idx[rows[i]]],
     cells |-> [i \in DOMAIN rows |-> d.cells[rows[i]]]]

\* a copy in which the cell of row r in column c holds v
OneCellChanged(d, r, c, v) == [d EXCEPT !.cells[r][c] = v]

\* a copy without row r
WithoutRow(d, r) ==
    SelectRows(d, SelectSeq([i \in DOMAIN d.idx |-> i], LAMBDA i : i # r))

\* a copy with one more row, a copy of the first row under the key k
WithRow(d, k) ==
    [d EXCEPT !.idx = Append(d.idx, k), !.cells = Append(d.cells, d.cells[1])]

\* a copy with the rows in reverse order
Reversed(d) ==
    SelectRows(d, [i \in DOMAIN d.idx |-> NRows(d) + 1 - i])

\* a key no table holds, and a usn no table holds
OtherKeys == {7}

OtherUsns == {4}

UsnColumn(table) == columns_anki2ours(table)["usn"]

\* the references handed to was_modified
References(d, table) ==
    {Given(d), Given(Reversed(d))}
    \cup (IF HasCol(d, UsnColumn(table))
          THEN {Given(OneCellChanged(d, r, UsnColumn(table), u)) :
                  r \in DOMAIN d.idx, u \in OtherUsns}
               \cup {Given(Reversed(OneCellChanged(d, r, UsnColumn(table),
                                                   u))) :
                       r \in DOMAIN d.idx \cap {1}, u \in OtherUsns}
          ELSE {})
    \cup (IF NRows(d) > 0 THEN {Given(WithoutRow(d, 1))} ELSE {})

\* the references handed to was_added and was_deleted
KeyReferences(d) ==
    IF NRows(d) > 0
    THEN {Given(WithoutRow(d, 1))}
         \cup {Given(WithRow(d, k)) : k \in OtherKeys}
    ELSE {Given(d)}

Init ==
    /\ anki_table \in Tables
    /\ \E rows \in StoredTables(anki_table) :
          db_table = NativeFrame(anki_table, rows)
    /\ df = db_table
    /\ df_format = "anki"
    /\ fields_format = "anki"
    /\ lastOp = "load"
    /\ outcome = "ok"
    /\ ret = <<>>
    /\ entry = [force |-> FALSE, df_format |-> "anki",
                fields_format |-> "anki"]
    /\ other_arg = NoOther
    /\ calls = <<>>

Next ==
    \/ \E force \in BOOLEAN :
         \E fail \in IF ~force /\ df_format = "anki"
                     THEN NormFailPoints(anki_table) ELSE {"none"} :
            normalize(force, fail)
    \/ \E force \in BOOLEAN :
         \E fail \in IF ~force /\ df_format = "ours"
                     THEN RawFailPoints(anki_table) ELSE {"none"} :
            raw(force, fail)
    \/ \E fail \in IF df_format = "ours" /\ fields_format = "list"
                   THEN FieldFailPoints ELSE {"none"} :
          fields_as_columns(fail)
    \/ \E fail \in IF df_format = "ours" /\ fields_format = "columns"
                   THEN FieldFailPoints ELSE {"none"} :
          fields_as_list(fail)
    \/ rid
    \/ list_tags
    \/ /\ df_format = "ours" /\ ~HasCol(df, "mid")
       /\ mid_setter(11)
    \/ \E ticks \in [1..MaxNew -> Clock], gen \in [1..MaxNew -> NewGuids] :
         \/ \E req \in AddRequests, inplace \in BOOLEAN :
               add_notes(req, ticks, gen, inplace, "none")
         \/ \E req \in AddRequests, fail \in AddFailPoints :
               /\ df_format = "ours" /\ anki_table = "notes"
               /\ req.model = "Basic"
               /\ add_notes(req, ticks, gen, TRUE, fail)

Spec == Init /\ [][Next]_vars

\* ------------------------------------------ the comparison with a reference
\* _table_constructor(path, user, table, empty), lines 110-130, up to the
\* call of normalize in line 124: with empty the table has the native
\* columns and no rows, whatever the storage holds.
InitCompare ==
    /\ anki_table \in Tables
    /\ \E rows \in StoredTables(anki_table) :
          db_table = NativeFrame(anki_table, rows)
    /\ \E empty \in BOOLEAN :
          df = IF empty THEN NativeFrame(anki_table, <<>>) ELSE db_table
    /\ df_format = "anki"
    /\ fields_format = "anki"
    /\ lastOp = "load"
    /\ outcome = "ok"
    /\ ret = <<>>
    /\ entry = [force |-> FALSE, df_format |-> "anki",
                fields_format |-> "anki"]
    /\ other_arg = NoOther
    /\ calls = <<>>

\* Loading, adding notes and adding a column, and the three comparisons
\* with a reference the caller passes or with the storage.
NextCompare ==
    \/ normalize(FALSE, "none")
    \/ \E ticks \in [1..MaxNew -> Clock], gen \in [1..MaxNew -> NewGuids] :
         \E req \in AddRequests \cup GuidRequests :
            add_notes(req, ticks, gen, TRUE, "none")
    \/ /\ df_format = "ours" /\ ~HasCol(df, "mid")
       /\ mid_setter(11)
    \/ \E o \in IF df_format = "ours"
                 THEN References(df, anki_table) \cup {NoOther}
                 ELSE {NoOther} :
         \E fail \in IF o.given \/ df_format # "ours" THEN {"none"}
                      ELSE {"none", "reload"} :
            call_was_modified(o, TRUE, FALSE, fail)
    \/ \E o \in IF df_format = "ours"
                 THEN KeyReferences(df) \cup {NoOther}
                 ELSE {NoOther} :
         \E fail \in IF o.given \/ df_format # "ours" THEN {"none"}
                      ELSE {"none", "get_ids"} :
            \/ call_was_added(o, FALSE, fail)
            \/ call_was_deleted(o, FALSE, fail)

SpecCompare == InitCompare /\ [][NextCompare]_vars

\* ------------------------------------------------------------ stamping
\* Loading, adding notes and converting back.
NextStamp ==
    \/ normalize(FALSE, "none")
    \/ \E ticks \in [1..MaxNew -> Clock], gen \in [1..MaxNew -> NewGuids] :
         \E req \in AddRequests \cup GuidRequests :
            add_notes(req, ticks, gen, TRUE, "none")
    \/ \E fail \in IF df_format = "ours"
                   THEN RawFailPoints(anki_table) ELSE {"none"} :
          raw(FALSE, fail)
    \/ \E which \in {"normalize", "raw"}, force \in BOOLEAN :
       \E fail \in IF which = "raw" /\ df_format = "ours"
                  THEN {"none", "reload_usn"} ELSE {"none"} :
          inplace_false(which, force, fail)

SpecStamp == InitCompare /\ [][NextStamp]_vars

\* --------------------------------------------------------- quick access
\* The id properties on a table in every format.
NextIds ==
    \/ normalize(FALSE, "none")
    \/ \E fail \in IF df_format = "ours"
                   THEN RawFailPoints(anki_table) ELSE {"none"} :
          raw(FALSE, fail)
    \/ rid
    \/ \E name \in IdProperties : get(name)

SpecIds == Init /\ [][NextIds]_vars

\* ---------------------------------------------------------- adding notes
\* Calls of add_notes with one and with two notes, with and without the
\* optional arguments, valid and invalid.
AddCases ==
    LET one == << <<<<"a">>>> >>
        two == << <<<<"a">>, <<"b">>>> >>
        R(model, fields, nid, guid) ==
            [model |-> model, fields |-> fields, nid |-> nid, guid |-> guid]
    IN
    { R("Reverse", one, NoNid, NoGuid),
      R("Reverse", two, NoNid, GivenGuid(<<"p", "q">>)),
      R("Reverse", << <<<<"a">>>>, <<<<"b">>>> >>, NoNid,
        GivenGuid(<<"p", "q">>)),
      R("Basic", << <<<<"a">>, <<"b">>>>, <<<<"c">>, <<"d">>>> >>,
        GivenNid(<<5, 6>>), GivenGuid(<<"p", "q">>)),
      R("Basic", << <<<<"a">>, <<"b">>>> >>, NoNid, NoGuid),
      R("Basic", << <<<<"a">>, <<"b">>>> >>, GivenNid(<<5>>),
        GivenGuid(<<"p">>)),
      R("Reverse", one, GivenNid(<<5, 6>>), NoGuid),
      R("Reverse", one, GivenNid(<<1>>), NoGuid),
      R("Reverse", two, GivenNid(<<5, 5>>), GivenGuid(<<"p", "q">>)),
      R("Reverse", one, NoNid, GivenGuid(<<"p", "q">>)),
      R("Reverse", one, NoNid, GivenGuid(<<"g1">>)),
      R("Reverse", two, GivenNid(<<5, 6>>), GivenGuid(<<"p", "p">>)) }
    \cup
    { [model |-> "Reverse", fields |-> one, nid |-> NoNid, guid |-> NoGuid,
       tags |-> t, mod |-> m] :
        t \in { <<>>, << <<"t">> >> }, m \in { <<>>, <<9>> } }

NextAdd ==
    \/ normalize(FALSE, "none")
    \/ \E ticks \in [1..2 -> {2, 3}], req \in AddCases :
          add_notes(req, ticks, <<"n1", "n2">>, TRUE, "none")

SpecAdd == InitCompare /\ [][NextAdd]_vars

\* add_notes in place and on a copy, with the fields as list or as columns:
\* the requests with one list per field of the model; the clock reads 2 for
\* the first note and 3 for the second
AppendCases ==
    {req \in AddCases :
       Len(req.fields) = Len(get_mid2fields[get_model2mid[req.model]])}

NextAppend ==
    \/ normalize(FALSE, "none")
    \/ fields_as_columns("none")
    \/ \E req \in AppendCases, inplace \in BOOLEAN :
          add_notes(req, <<2, 3>>, <<"n1", "n2">>, inplace, "none")

SpecAppend == InitCompare /\ [][NextAppend]_vars

\* ------------------------------------------------- packing and unpacking
\* The conversions of one cell of ntags and of nflds, applied to values of
\* bounded size: normalize splits (1049-1052, 1059), raw joins (1159,
\* 1165).  ret holds the value drawn and the results of the conversions
\* applied to it, each with the conversion that produced it.
Seqs(S, n) == UNION {[1..k -> S] : k \in 0..n}

InitCodec ==
    /\ anki_table = "notes"
    /\ db_table = NativeFrame("notes", <<>>)
    /\ df = db_table
    /\ df_format = "anki"
    /\ fields_format = "anki"
    /\ lastOp = "load"
    /\ outcome = "ok"
    /\ entry = [force |-> FALSE, df_format |-> "anki",
                fields_format |-> "anki"]
    /\ other_arg = NoOther
    /\ calls = <<>>
    /\ \E kind \in {"tags", "ntags", "flds", "nflds"} :
       \E v \in CASE kind = "ntags" ->
                     Seqs({<<>>, <<"a">>, <<"b", "c">>, <<"a", " ">>}, 3)
                  [] kind = "tags" -> Seqs({"a", " "}, 4)
                  [] kind = "nflds" ->
                     Seqs({<<>>, <<"x">>, <<"x", "y">>, <<US>>}, 3)
                  [] OTHER -> Seqs({"x", US}, 4) :
          ret = <<[by |-> kind, val |-> v]>>

codec(by) ==
    /\ Len(ret) <= 2
    /\ ret[Len(ret)].by \in
         CASE by = "split_tags" -> {"tags", "join_tags"}
           [] by = "join_tags" -> {"ntags", "split_tags"}
           [] by = "split_flds" -> {"flds", "join_flds"}
           [] OTHER -> {"nflds", "split_flds"}
    /\ \E v \in {ret[Len(ret)].val} :
          ret' = Append(ret,
                   [by |-> by,
                    val |-> CASE by = "split_tags" -> split_tags(v)
                              [] by = "join_tags" -> str_join(v, " ")
                              [] by = "split_flds" -> str_split(v, US)
                              [] OTHER -> str_join(v, US)])
    /\ lastOp' = by
    /\ UNCHANGED <<anki_table, db_table, df, df_format, fields_format,
                   outcome, entry, other_arg, calls>>

NextCodec ==
    \E by \in {"split_tags", "join_tags", "split_flds", "join_flds"} :
       codec(by)

SpecCodec == InitCodec /\ [][NextCodec]_vars

\* ---------------------------------------------------------------- tags
\* Adding and removing tags on a loaded table.
TagLists ==
    { <<>>, << <<"a">> >>, << <<"c">> >>, << <<"c">>, <<"a">> >>,
      << <<"b">>, <<"c">> >>, << <<"c">>, <<"c">> >> }

NextTags ==
    \/ normalize(FALSE, "none")
    \/ \E tags \in TagLists, inplace \in BOOLEAN : add_tag(tags, inplace)
    \/ \E tags \in {[given |-> TRUE, val |-> t] : t \in TagLists}
                   \cup {NoTags},
          inplace \in BOOLEAN :
          remove_tag(tags, inplace)

SpecTags == Init /\ [][NextTags]_vars

\* ------------------------------------------------- names without an id
\* The name columns the caller edits: raw reads the deck ids from cdeck and
\* codeck (1120-1126) and the model id from nmodel (1127-1130).
name_columns(table) ==
    CASE table = "cards" -> {"cdeck", "codeck"}
      [] table = "notes" -> {"nmodel"}
      [] OTHER -> {}

name2id(column) == IF column = "nmodel" THEN get_model2mid ELSE get_deck2did

\* the names a caller writes: a deck, which no model is called, and a name
\* of neither resolver
Names == {"Spanish", "Nope"}

\* self.loc[key, column] = value on a table in format 'ours', the
\* assignment AnkiDataFrame inherits from pandas.DataFrame
setitem(r, column, value) ==
    /\ df_format = "ours"
    /\ column \in name_columns(anki_table) /\ HasCol(df, column)
    /\ r \in DOMAIN df.cells
    /\ df' = SetCol(df, column,
                    [q \in DOMAIN df.cells |->
                       IF q = r THEN value ELSE df.cells[q][column]])
    /\ UNCHANGED <<anki_table, db_table, df_format, fields_format>>
    /\ Done("setitem", "ok", <<>>)

NextResolve ==
    \/ normalize(FALSE, "none")
    \/ \E r \in 1..MaxRows, column \in {"cdeck", "codeck", "nmodel"},
          value \in Names : setitem(r, column, value)
    \/ raw(FALSE, "none")

SpecResolve == Init /\ [][NextResolve]_vars

\* ------------------------------------------------------- a blank table
\* AnkiDataFrame(data), lines 33-75: a table built from data without one of
\* the constructors notes, cards, revs has no table kind, no format tag and
\* no database.
InitBlank ==
    /\ anki_table = "None"
    /\ df_format = "None"
    /\ fields_format = "anki"
    /\ \E t \in Tables : \E rows \in StoredTables(t) :
          df = NativeFrame(t, rows)
    /\ db_table = NativeFrame("notes", <<>>)
    /\ lastOp = "load"
    /\ outcome = "ok"
    /\ ret = <<>>
    /\ entry = [force |-> FALSE, df_format |-> "None",
                fields_format |-> "anki"]
    /\ other_arg = NoOther
    /\ calls = <<>>

NextBlank ==
    \/ \E force \in BOOLEAN : normalize(force, "none")
    \/ \E force \in BOOLEAN : raw(force, "none")

SpecBlank == InitBlank /\ [][NextBlank]_vars

\* ------------------------------------------------------------- writing
\* Loading, adding notes and writing to the storage.
NextWrite ==
    \/ normalize(FALSE, "none")
    \/ \E ticks \in [1..MaxNew -> Clock], gen \in [1..MaxNew -> NewGuids] :
         \E req \in AddRequests \cup GuidRequests :
            add_notes(req, ticks, gen, TRUE, "none")
    \/ \E mode \in WriteModes :
         \E fail \in IF df_format = "ours" /\ mode = "replace"
                      THEN WriteFailPoints ELSE {"none"} :
            write(mode, fail)
    \/ call_was_deleted(NoOther, FALSE, "none")

SpecWrite == InitCompare /\ [][NextWrite]_vars

\* ====================================================================
\* Properties
\* ====================================================================

\* ------------------------------------------------------------- helpers
\* the native name of convenience column c
NativeName(table, c) == invert_dict(columns_anki2ours(table))[c]

\* a stored row holds, in a value-mapped column, a code the map does not
\* declare
HasUnmappedCode(table, row) ==
    \E i \in DOMAIN value_map_columns(table) :
       row[NativeName(table, value_map_columns(table)[i])]
          \notin DOMAIN value_maps(value_map_columns(table)[i])

\* what normalize followed by raw leaves in column c of a stored row
RoundTripCell(table, row, c) ==
    CASE c = "data" -> ""
      [] c = "flags" -> 0
      [] table = "notes" /\ c = "tags" ->
           str_join(split_tags(row[c]), " ")
      [] table = "notes" /\ c = "sfld" ->
           str_split(row["flds"], US)[get_mid2sortfield[row["mid"]] + 1]
      [] table = "notes" /\ c = "csum" ->
           field_checksum(str_split(row["flds"], US)[1])
      [] c = "usn" /\ HasUnmappedCode(table, row) -> 0 - 1
      [] c = "mod" /\ HasUnmappedCode(table, row) -> time_time
      [] c \in {"type", "queue"} /\ table \in {"cards", "revs"}
         /\ row[c] \notin DOMAIN value_maps(columns_anki2ours(table)[c]) ->
           NaNNum
      [] OTHER -> row[c]

RoundTripCells(table, stored) ==
    [r \in DOMAIN stored.cells |->
       [c \in Range(stored.cols) |->
          RoundTripCell(table, stored.cells[r], c)]]

\* the step from a freshly normalized, unmodified table to the result of a
\* successful raw
NormalizedThenRaw ==
    /\ lastOp = "normalize" /\ outcome = "ok"
    /\ lastOp' = "raw" /\ outcome' = "ok"
    /\ entry.df_format = "anki"
    /\ df = reload(db_table, anki_table)

C2_TerminalFormat ==
    /\ (lastOp = "normalize" /\ outcome \in {"ok", "noop"})
          => df_format = "ours"
    /\ (lastOp = "raw" /\ outcome \in {"ok", "noop"}) => df_format = "anki"
    /\ (lastOp \in {"normalize", "raw"} /\ df_format = "in_progress")
          => outcome = "raised"

C2_Witness ==
    /\ lastOp = "raw" /\ outcome = "ok" /\ df_format = "anki"
    /\ entry.df_format = "ours"
    /\ NRows(df) > 0

\* ------------------------------------------------------------------ C3
\* C3: normalize without force on an "ours" table, and raw without force
\* on an "anki" table, return without changing the format tag, the field
\* sub-format, the columns or any cell.
C3_NoOp ==
    [][(\/ lastOp' = "normalize" /\ ~entry'.force /\ df_format = "ours"
        \/ lastOp' = "raw" /\ ~entry'.force /\ df_format = "anki")
       => /\ outcome' = "noop"
          /\ UNCHANGED <<df, df_format, fields_format>>]_vars

C3_Witness ==
    /\ lastOp = "normalize" /\ ~entry.force /\ entry.df_format = "ours"
    /\ outcome = "noop" /\ df_format = "ours"
    /\ NRows(df) > 0

\* ------------------------------------------------------------------ C4
\* C4: normalize and raw without force on an "in_progress" table raise
\* and leave the format tag, the columns and the cells as they were.
C4_InProgressRejected ==
    [][(df_format = "in_progress" /\ lastOp' \in {"normalize", "raw"}
        /\ ~entry'.force)
       => /\ outcome' = "raised"
          /\ df_format' = "in_progress"
          /\ df' = df]_vars

C4_Witness ==
    /\ lastOp = "raw" /\ ~entry.force /\ entry.df_format = "in_progress"
    /\ outcome = "raised" /\ df_format = "in_progress"
    /\ NRows(df) > 0

\* ------------------------------------------------------------------ C5
\* C5: a call made while the format tag is "in_progress" raises.
C5_FailFast ==
    (entry.df_format = "in_progress"
     /\ lastOp \in {"rid", "list_tags", "fields_as_columns",
                    "fields_as_list", "add_notes"})
    => outcome = "raised"

\* ------------------------------------------------------------------ C6
\* C6: after a normalize that failed partway, normalize(force=True)
\* succeeds.
C6_ForcedRetry ==
    [][(/\ lastOp = "normalize" /\ outcome = "raised"
        /\ entry.df_format = "anki" /\ df_format = "in_progress"
        /\ lastOp' = "normalize" /\ entry'.force
        /\ normalize(TRUE, "none"))
       => (outcome' = "ok" /\ df_format' = "ours")]_vars

\* ------------------------------------------------------------------ C7
\* C7: raw on an "ours" notes table whose fields are columns completes
\* with format tag "anki" when the storage answers every query.
C7_RawFromColumns ==
    [][(/\ anki_table = "notes" /\ df_format = "ours"
        /\ fields_format = "columns"
        /\ lastOp' = "raw"
        /\ raw(FALSE, "none"))
       => (outcome' = "ok" /\ df_format' = "anki")]_vars

\* ------------------------------------------------------------------ C8
\* C8: the field sub-format of a normalized notes table is "list",
\* "columns" or "in_progress", and "list" after a successful
\* fields_as_list.
C8_SubFormat ==
    /\ (anki_table = "notes" /\ df_format = "ours")
          => fields_format \in {"list", "columns", "in_progress"}
    /\ (lastOp = "fields_as_list" /\ outcome = "ok")
          => fields_format = "list"

\* ------------------------------------------------------------------ C9
\* C9: a fields_as_columns or fields_as_list that raises after its
\* transition has started leaves the sub-format "in_progress", and while
\* the sub-format is "in_progress" every fields_as_columns, fields_as_list
\* and add_notes call raises and leaves it so.
C9_SubFormatStuck ==
    [][/\ (/\ df_format = "ours" /\ HasCol(df, "nflds")
           /\ fields_format = "list"
           /\ lastOp' = "fields_as_columns" /\ outcome' = "raised")
          => fields_format' = "in_progress"
       /\ (/\ df_format = "ours" /\ fields_format = "columns"
           /\ lastOp' = "fields_as_list" /\ outcome' = "raised")
          => fields_format' = "in_progress"
       /\ (/\ fields_format = "in_progress"
           /\ lastOp' \in {"fields_as_columns", "fields_as_list",
                           "add_notes"})
          => (outcome' = "raised" /\ fields_format' = "in_progress"
              /\ df' = df)]_vars

C9_Witness ==
    /\ lastOp = "fields_as_columns" /\ outcome = "raised"
    /\ entry.df_format = "ours" /\ entry.fields_format = "in_progress"
    /\ fields_format = "in_progress"
    /\ NRows(df) > 0

\* ----------------------------------------------------------------- C10
\* C10: on a normalized notes table that has rows and holds the fields as
\* list, fields_as_columns followed by fields_as_list succeeds, gives every
\* row its original ordered field list in nflds and leaves no prefixed
\* column, also when the table has several models that share a field name.
C10_FieldsRoundTrip ==
    (anki_table = "notes" /\ df_format = "ours" /\ fields_format = "list"
     /\ HasCol(df, "nflds") /\ NRows(df) > 0)
    => \E s1 \in {fields_as_columns_steps(df, fields_format, df_format,
                                          "none")} :
         \E s2 \in {fields_as_list_steps(s1.df, s1.ff, df_format, "none")} :
            /\ s1.ok /\ s1.ff = "columns"
            /\ s2.ok
            /\ HasCol(s2.df, "nflds")
            /\ \A r \in DOMAIN df.cells :
                  s2.df.cells[r]["nflds"] = df.cells[r]["nflds"]
            /\ \A i \in DOMAIN s2.df.cols :
                  ~startswith(s2.df.cols[i], fields_as_columns_prefix)

C10_Witness ==
    /\ lastOp = "fields_as_list" /\ outcome = "ok"
    /\ entry.fields_format = "columns"
    /\ \E r, q \in DOMAIN df.cells :
          /\ df.cells[r]["nmodel"] = "Basic"
          /\ df.cells[q]["nmodel"] = "Reverse"
          /\ Len(df.cells[r]["nflds"]) = 2
          /\ Len(df.cells[q]["nflds"]) = 1
    /\ \A i \in DOMAIN df.cols :
          ~startswith(df.cols[i], fields_as_columns_prefix)


\* C11: after a successful raw the columns are exactly the native column
\* list of the table's kind, in native order, whatever convenience-only
\* columns were added in 'ours' format.  Stated for the case the claim
\* names: a table in 'ours' format that carries an added column beside the
\* columns of the format, and that converts without the added column, is
\* converted by raw (the storage answering every query) and ends with
\* exactly the native columns.
C11_RawDropsExtras ==
    [][(/\ raw(FALSE, "none")
        /\ df_format = "ours"
        /\ HasCol(df, "mid")
        /\ raw_steps(DropCols(df, {"mid"}), fields_format, anki_table,
                     db_table, "none").ok)
       => (/\ outcome' = "ok"
           /\ df'.cols = anki_columns(anki_table))]_vars

\* C12: after a successful raw on a notes or cards table every row has
\* data = "" and flags = 0, whatever the stored row held; on a revs table
\* there is no data and no flags column.
C12_UnusedColumns ==
    (lastOp = "raw" /\ outcome = "ok")
    => IF anki_table \in {"notes", "cards"}
       THEN \A r \in DOMAIN df.cells :
               df.cells[r]["data"] = "" /\ df.cells[r]["flags"] = 0
       ELSE ~HasCol(df, "data") /\ ~HasCol(df, "flags")

\* a successful raw on a cards table whose first stored row held other
\* values in both columns
C12_Witness ==
    /\ lastOp = "raw" /\ outcome = "ok" /\ entry.df_format = "ours"
    /\ anki_table = "cards"
    /\ NRows(df) > 0 /\ NRows(db_table) > 0
    /\ db_table.cells[1]["flags"] = 1 /\ db_table.cells[1]["data"] = "d"
    /\ df.cells[1]["id"] = db_table.cells[1]["id"]

\* ---------------------------------------------- comparison: helpers
\* the reference the last comparison used: the argument, or the table
\* reloaded from the storage
ReferenceFrame ==
    IF other_arg.given THEN other_arg.df ELSE reload(db_table, anki_table)

\* the keys the last was_added / was_deleted compared with
ReferenceKeys ==
    IF other_arg.given THEN Range(other_arg.df.idx) ELSE get_ids(db_table)

RowOf(d, k) == CHOOSE r \in DOMAIN d.idx : d.idx[r] = k

NoDuplicateKeys(d) == Cardinality(Range(d.idx)) = Len(d.idx)

\* the cells, by key and column, in which d and o hold different values
CellsDiffering(d, o) ==
    {kc \in (Range(d.idx) \cap Range(o.idx)) \X Range(d.cols) :
       d.cells[RowOf(d, kc[1])][kc[2]] # o.cells[RowOf(o, kc[1])][kc[2]]}

SameKeysAndColumns(d, o) ==
    /\ Range(d.idx) = Range(o.idx)
    /\ NoDuplicateKeys(d) /\ NoDuplicateKeys(o)
    /\ d.cols = o.cols

\* C13: for a table and a reference with the same keys and columns that
\* differ in exactly one cell of one row, was_modified is true for exactly
\* that row and false for all others, was_added is false for every row and
\* was_deleted is the empty list.
C13_OneCellOneRow ==
    (/\ lastOp = "was_modified"
     /\ other_arg.given
     /\ entry.df_format = "ours"
     /\ SameKeysAndColumns(df, other_arg.df)
     /\ Cardinality(CellsDiffering(df, other_arg.df)) = 1)
    => /\ outcome = "ok"
       /\ \A r \in DOMAIN df.idx :
             ret[r] <=> \E c \in Range(df.cols) :
                           <<df.idx[r], c>> \in CellsDiffering(df,
                                                               other_arg.df)
       /\ \A r \in DOMAIN df.idx :
             ~was_added_rows(df, Range(other_arg.df.idx))[r]
       /\ was_deleted_keys(df, Range(other_arg.df.idx)) = <<>>

\* C14: was_modified is true for every row whose key is absent from the
\* reference, true for every row present in the reference with at least
\* one differing cell, and false for every row present in the reference
\* with all cells equal.
C14_ModifiedRows ==
    (/\ lastOp = "was_modified"
     /\ outcome = "ok"
     /\ NoDuplicateKeys(ReferenceFrame)
     /\ ReferenceFrame.cols = df.cols)
    => \A r \in DOMAIN df.idx :
          ret[r] <=> \/ df.idx[r] \notin Range(ReferenceFrame.idx)
                     \/ \E c \in Range(df.cols) :
                           <<df.idx[r], c>> \in CellsDiffering(df,
                                                               ReferenceFrame)

\* C15: was_deleted returns, in ascending order and without duplicates,
\* exactly the keys that are in the reference (without a reference: in the
\* id listing of the storage) and not in the table.
C15_DeletedKeys ==
    (lastOp = "was_deleted" /\ outcome = "ok")
    => /\ \A i, j \in DOMAIN ret : i < j => ret[i] < ret[j]
       /\ Range(ret) = ReferenceKeys \ Range(df.idx)

\* was_deleted without a reference on a table that lacks two stored keys
C15_Witness ==
    /\ lastOp = "was_deleted" /\ outcome = "ok"
    /\ ~other_arg.given
    /\ Len(ret) = 2 /\ ret[1] < ret[2]

RawConverted ==
    lastOp' = "raw" /\ outcome' = "ok" /\ df_format = "ours"

\* C17: after a successful raw every row for which was_modified against
\* the current storage is true has usn = -1 and, on notes and cards, mod =
\* the time of the raw call; on revs no modification time is written.
C17_Stamping ==
    [][RawConverted
       => \E m \in {was_modified(df, reload(db_table, anki_table), TRUE)} :
            /\ m.ok
            /\ \A r \in DOMAIN df.idx :
                  m.val[r]
                  => /\ df'.cells[r]["usn"] = 0 - 1
                     /\ anki_table \in {"notes", "cards"}
                        => df'.cells[r]["mod"] = time_time
            /\ anki_table = "revs" => ~HasCol(df', "mod")]_vars

\* a cards table after raw in which one row was stamped and another row
\* kept the usn and the modification time of the storage
C17_Witness ==
    /\ lastOp = "raw" /\ outcome = "ok" /\ entry.df_format = "ours"
    /\ anki_table = "cards"
    /\ \E r, q \in DOMAIN df.cells :
          /\ df.cells[r]["usn"] = 0 - 1 /\ df.cells[r]["mod"] = time_time
          /\ df.cells[q]["usn"] = 0 /\ df.cells[q]["mod"] = 5

\* C18: after a successful raw on a notes table every row whose guid was
\* missing (empty) before the call carries a non-empty guid.
C18_GuidFilled ==
    [][(RawConverted /\ anki_table = "notes")
       => \A r \in DOMAIN df.idx :
             df.cells[r]["nguid"] = "" => df'.cells[r]["guid"] # ""]_vars

\* --------------------------------------------------- writing: helpers
\* the positions at which the last write called f
CallsOf(f) == {i \in DOMAIN calls : calls[i] = f}

\* the last write raised in the call named last in calls
RaisedIn(f) ==
    outcome = "raised" /\ calls # <<>> /\ calls[Len(calls)] = f

\* C19: in every write call the backup of the database is created before
\* any row is handed to set_table; when creating the backup or the
\* conversion to the native format raises, set_table is never invoked
\* (and the stored table is left as it was).
C19_BackupBeforeWrite ==
    [][lastOp' = "write"
       => /\ \A j \in CallsOf("set_table")' :
               \E i \in CallsOf("backup_db")' : i < j
          /\ (RaisedIn("backup_db")' \/ RaisedIn("raw")')
             => CallsOf("set_table")' = {}
          /\ CallsOf("set_table")' = {} => db_table' = db_table]_vars

\* a write that handed rows to the storage, after the backup
C19_Witness ==
    /\ lastOp = "write" /\ outcome = "ok"
    /\ entry.df_format = "ours"
    /\ calls = <<"backup_db", "raw", "set_table">>
    /\ NRows(db_table) > 0

C21_WitnessRaised ==
    /\ lastOp = "raw(inplace=False)"
    /\ outcome = "raised"
    /\ df_format = "ours"

\* C22: every id accessor (nid, cid, rid, mid, did, odid) raises when the
\* format tag of the table is 'anki' or 'in_progress'; an id accessor
\* returns only on a table in 'ours' format.
C22_IdsOnlyInOurs ==
    lastOp \in IdProperties \cup {"rid"} /\ outcome = "ok"
        => df_format = "ours"

\* what C23 lists as a reason to raise, for the call req on the table d
Rejected(req, d) ==
    LET n == Len(req.fields[1])
        Dup(g) == g.given /\ HasDuplicates(g.val)
        Wrong(g) == g.given /\ Len(g.val) # n
    IN  \/ Len(req.fields) # Len(get_mid2fields[get_model2mid[req.model]])
        \/ "tags" \in DOMAIN req /\ Len(req.tags) # n
        \/ "mod" \in DOMAIN req /\ Len(req.mod) # n
        \/ Wrong(req.nid) \/ Wrong(req.guid)
        \/ req.nid.given /\ Range(req.nid.val) \cap Range(d.idx) # {}
        \/ Dup(req.nid)
        \/ req.guid.given /\ \E r \in DOMAIN d.cells :
                                d.cells[r]["nguid"] \in Range(req.guid.val)
        \/ Dup(req.guid)

\* C23: add_notes raises, and leaves the rows, the columns and the format
\* of the table unchanged, whenever the number of supplied fields differs
\* from the field count of the model, the number of tag lists, note ids,
\* guids or timestamps differs from the number of notes, a supplied note id
\* is in the index or occurs twice in the request, or a supplied guid is in
\* the table or occurs twice in the request.
C23_InvalidRequestRaises ==
    [][\A req \in AddCases, ticks \in [1..2 -> {2, 3}] :
          /\ df_format = "ours" /\ anki_table = "notes"
          /\ Rejected(req, df)
          /\ add_notes(req, ticks, <<"n1", "n2">>, TRUE, "none")
          => outcome' = "raised" /\ UNCHANGED <<df, df_format,
                                               fields_format>>]_vars

\* the optional arguments of req that are given fit m notes and the table d
FitsNotes(req, d, m) ==
    /\ "tags" \in DOMAIN req => Len(req.tags) = m
    /\ "mod" \in DOMAIN req => Len(req.mod) = m
    /\ req.nid.given =>
         /\ Len(req.nid.val) = m /\ ~HasDuplicates(req.nid.val)
         /\ Range(req.nid.val) \cap Range(d.idx) = {}
    /\ req.guid.given =>
         /\ Len(req.guid.val) = m /\ ~HasDuplicates(req.guid.val)
         /\ \A r \in DOMAIN d.cells :
               d.cells[r]["nguid"] \notin Range(req.guid.val)

\* C24: add_notes given fields as a list of M lists, one per note, each
\* holding the N field values of that note, adds M notes, and the i-th
\* field of the j-th added note is the i-th value of the j-th list.
C24_PerNoteLists ==
    [][\A req \in AddCases, ticks \in [1..2 -> {2, 3}] :
          /\ df_format = "ours" /\ anki_table = "notes"
          /\ fields_format = "list"
          /\ \A j \in DOMAIN req.fields :
                Len(req.fields[j])
                   = Len(get_mid2fields[get_model2mid[req.model]])
          /\ req.nid.given
          /\ FitsNotes(req, df, Len(req.fields))
          /\ NRows(df) + Len(req.fields) <= MaxRows
          /\ add_notes(req, ticks, <<"n1", "n2">>, TRUE, "none")
          => /\ outcome' = "ok"
             /\ NRows(df') = NRows(df) + Len(req.fields)
             /\ \A j \in DOMAIN req.fields :
                   df'.cells[NRows(df) + j]["nflds"] = req.fields[j]]_vars

\* C25: add_notes called with nid=None for n notes assigns n pairwise
\* distinct note ids, none of them in the index, and succeeds, whatever
\* the clock returns on its successive reads (the same millisecond
\* included).
C25_FreshIds ==
    [][\A req \in AddCases, ticks \in [1..2 -> {2, 3}] :
          /\ df_format = "ours" /\ anki_table = "notes"
          /\ fields_format = "list"
          /\ ~req.nid.given
          /\ Len(req.fields) = Len(get_mid2fields[get_model2mid[req.model]])
          /\ FitsNotes(req, df, Len(req.fields[1]))
          /\ req.guid.given
             \/ \A r \in DOMAIN df.cells :
                   df.cells[r]["nguid"] \notin {"n1", "n2"}
          /\ NRows(df) + Len(req.fields[1]) <= MaxRows
          /\ add_notes(req, ticks, <<"n1", "n2">>, TRUE, "none")
          => /\ outcome' = "ok"
             /\ Len(ret') = Len(req.fields[1])
             /\ ~HasDuplicates(ret')
             /\ Range(ret') \cap Range(df.idx) = {}]_vars

\* the conversions applied so far
Applied == [i \in DOMAIN ret |-> ret[i].by]

\* C26: for every list xs of non-empty tags without a space, splitting the
\* space-joined string of xs gives xs again; the empty list joins to the
\* empty string and the empty string splits to the empty list; splitting
\* drops the empty tokens that leading, trailing or doubled spaces leave.
C26_TagPacking ==
    /\ Applied = <<"ntags", "join_tags", "split_tags">>
       /\ (\A i \in DOMAIN ret[1].val :
              ret[1].val[i] # <<>> /\ " " \notin Range(ret[1].val[i]))
       => ret[3].val = ret[1].val
    /\ Applied = <<"ntags", "join_tags">> /\ ret[1].val = <<>>
       => ret[2].val = <<>>
    /\ Len(ret) >= 2 /\ Applied[2] = "split_tags"
       => /\ ret[1].val = <<>> => ret[2].val = <<>>
          /\ \A i \in DOMAIN ret[2].val :
                ret[2].val[i] # <<>> /\ " " \notin Range(ret[2].val[i])
          /\ Len(ret[2].val)
                = Cardinality({i \in DOMAIN ret[1].val :
                                 /\ ret[1].val[i] # " "
                                 /\ i = 1 \/ ret[1].val[i - 1] = " "})

\* a list of two tags came back from the packed string
C26_Witness ==
    /\ Applied = <<"ntags", "join_tags", "split_tags">>
    /\ ret[1].val = << <<"a">>, <<"b", "c">> >>
    /\ ret[3].val = ret[1].val

\* joining what the split of a string gave is not that string
C26_WitnessLossy ==
    /\ Applied = <<"tags", "split_tags", "join_tags">>
    /\ ret[3].val # ret[1].val

\* C27 as stated: for every list xs of strings without the separator, the
\* empty list and lists of empty strings included, splitting the
\* separator-joined string of xs gives xs again.
C27_FieldPackingAnyList ==
    Applied = <<"nflds", "join_flds", "split_flds">>
    /\ (\A i \in DOMAIN ret[1].val : US \notin Range(ret[1].val[i]))
    => ret[3].val = ret[1].val

\* C27: for every non-empty list xs of strings without the separator,
\* lists of empty strings included, splitting the separator-joined string
\* of xs gives xs again; the empty list is joined to the empty string,
\* which splits to the list holding one empty string.
C27_FieldPacking ==
    Applied = <<"nflds", "join_flds", "split_flds">>
    /\ (\A i \in DOMAIN ret[1].val : US \notin Range(ret[1].val[i]))
    => ret[3].val = IF ret[1].val = <<>> THEN << <<>> >> ELSE ret[1].val

\* a list of two strings, one of them empty, came back
C27_Witness ==
    /\ Applied = <<"nflds", "join_flds", "split_flds">>
    /\ ret[1].val = << <<>>, <<"x", "y">> >>
    /\ ret[3].val = ret[1].val

\* C28: for every non-empty list of tags T, after add_tag(T) has_tags(T)
\* is true for every row and every row's former tag list is the beginning
\* of its new one, which holds no further tag outside T; after
\* remove_tag(T) has_tag(T) is false for every row and every row keeps its
\* tags outside T in their order; after remove_tag(None) every row has an
\* empty tag list.
C28_TagOperations ==
    [][/\ \A T \in TagLists \ {<<>>} :
            add_tag(T, TRUE) /\ outcome' = "ok" =>
               /\ \A r \in DOMAIN df'.cells :
                     has_tags(df', [given |-> TRUE, val |-> T])[r]
               /\ \A r \in DOMAIN df.cells :
                     LET old == df.cells[r]["ntags"]
                         new == df'.cells[r]["ntags"]
                     IN  /\ Len(new) >= Len(old)
                         /\ SubSeq(new, 1, Len(old)) = old
                         /\ Range(new) \subseteq Range(old) \cup Range(T)
               /\ NRows(df') = NRows(df)
       /\ \A T \in TagLists \ {<<>>} :
            remove_tag([given |-> TRUE, val |-> T], TRUE)
            /\ outcome' = "ok" =>
               /\ \A r \in DOMAIN df'.cells :
                     ~has_tag(df', [given |-> TRUE, val |-> T])[r]
               /\ \A r \in DOMAIN df.cells :
                     LET old == df.cells[r]["ntags"]
                         new == df'.cells[r]["ntags"]
                         kept == {i \in DOMAIN old : old[i] \notin Range(T)}
                     IN  /\ Len(new) = Cardinality(kept)
                         /\ \A i \in kept :
                               new[Cardinality({j \in kept : j <= i})]
                                  = old[i]
               /\ NRows(df') = NRows(df)
       /\ remove_tag(NoTags, TRUE) /\ outcome' = "ok" =>
               /\ \A r \in DOMAIN df'.cells : df'.cells[r]["ntags"] = <<>>
               /\ NRows(df') = NRows(df)]_vars

\* a tag was removed from both rows of a table, which keep two others
C28_Witness ==
    /\ lastOp = "remove_tag" /\ outcome = "ok" /\ ret = <<>>
    /\ NRows(df) = 2
    /\ \A r \in DOMAIN df.cells :
          df.cells[r]["ntags"] = << <<"a">>, <<"b">> >>

\* C29: after a successful fields_as_columns, for every model id present
\* and every field name of that model the column prefix + name exists on
\* the whole table; a row holds in it the element of its former field list
\* at the position the name has in its own model, and the empty string
\* when the name is no field of its model; the column nflds is gone.
C29_FieldColumns ==
    [][lastOp' = "fields_as_columns" /\ outcome' = "ok" =>
         /\ ~HasCol(df', "nflds")
         /\ NRows(df') = NRows(df)
         /\ \A r, q \in DOMAIN df.cells :
               LET names == get_mid2fields[mid_of(df)[r]]
                   own == get_mid2fields[mid_of(df)[q]]
               IN  \A i \in DOMAIN names :
                      /\ HasCol(df', fields_as_columns_prefix \o names[i])
                      /\ df'.cells[q][fields_as_columns_prefix \o names[i]]
                           = IF \E k \in DOMAIN own : own[k] = names[i]
                             THEN df.cells[q]["nflds"][
                                     CHOOSE k \in DOMAIN own :
                                        own[k] = names[i]]
                             ELSE <<>>]_vars

\* the fields of a table with notes of both models are in columns
C29_Witness ==
    /\ lastOp = "fields_as_columns" /\ outcome = "ok"
    /\ {df.cells[r]["nmodel"] : r \in DOMAIN df.cells}
          = {"Basic", "Reverse"}
    /\ \E r \in DOMAIN df.cells : df.cells[r]["nfld_Front"] = <<>>
    /\ \E r \in DOMAIN df.cells : df.cells[r]["nfld_Back"] = <<"x">>

\* C30: was_modified compares each row with the row of the reference that
\* has the same key, by cell equality over the columns present in both
\* tables; a column present in only one of the two tables is ignored and
\* does not make the comparison fail.
C30_ColumnIntersection ==
    [][\A o \in References(df, anki_table) \cup {NoOther} :
          LET ref == IF o.given THEN o.df
                     ELSE reload(db_table, anki_table)
              common == Range(df.cols) \cap Range(ref.cols)
          IN  /\ df_format = "ours"
              /\ NoDuplicateKeys(df) /\ NoDuplicateKeys(ref)
              /\ call_was_modified(o, TRUE, FALSE, "none")
              => /\ outcome' = "ok"
                 /\ \A r \in DOMAIN df.idx :
                       df.idx[r] \in Range(ref.idx) =>
                          (ret'[r] <=>
                             \E c \in common :
                                df.cells[r][c]
                                  # ref.cells[RowOf(ref, df.idx[r])][c])]_vars

\* C31: was_modified pairs each row with the row of the reference that has
\* the same key: what it returns for a key is the same for every order of
\* the rows of the table and every order of the rows of the reference.
C31_OrderIndependent ==
    (/\ lastOp = "was_modified" /\ outcome = "ok"
     /\ other_arg.given
     /\ entry.df_format = "ours"
     /\ NoDuplicateKeys(df) /\ NoDuplicateKeys(other_arg.df))
    => LET byRef == was_modified(df, Reversed(other_arg.df), TRUE)
           byTab == was_modified(Reversed(df), other_arg.df, TRUE)
       IN  /\ byRef.ok /\ byRef.val = ret
           /\ byTab.ok
           /\ \A r \in DOMAIN df.idx :
                 byTab.val[NRows(df) + 1 - r] = ret[r]

\* C32: raw does not change the usn or the modification time of a row for
\* which was_modified against the current storage is false, also when
\* other rows of the table are modified or new.
C32_UnmodifiedKept ==
    [][RawConverted
       => \E m \in {was_modified(df, reload(db_table, anki_table), TRUE)} :
            /\ m.ok
            /\ \A r \in DOMAIN df.idx :
                  ~m.val[r]
                  => /\ df'.cells[r]["usn"] = df.cells[r][UsnColumn(anki_table)]
                     /\ anki_table \in {"notes", "cards"}
                        => df'.cells[r]["mod"]
                             = df.cells[r][columns_anki2ours(anki_table)["mod"]]]_vars

\* a notes table after raw in which the stored note kept its usn and its
\* modification time and the added note was stamped
C32_Witness ==
    /\ lastOp = "raw" /\ outcome = "ok" /\ entry.df_format = "ours"
    /\ anki_table = "notes"
    /\ \E r, q \in DOMAIN df.cells :
          /\ df.cells[r]["id"] \in get_ids(db_table)
          /\ df.cells[r]["usn"] = 0 /\ df.cells[r]["mod"] = 5
          /\ df.cells[q]["id"] \notin get_ids(db_table)
          /\ df.cells[q]["usn"] = 0 - 1

\* C33 as stated: normalize and raw on a table whose kind is none of
\* notes, cards, revs raise the invalid-table error, with or without
\* force, and leave the format tag and the content as they were.
C33_InvalidTableError ==
    [][/\ lastOp' \in {"normalize", "raw"}
       /\ anki_table \notin Tables
       => /\ outcome' = "raised" /\ ret' = <<"Invalid table">>
          /\ UNCHANGED <<df, df_format, fields_format>>]_vars

\* C33: normalize and raw on a table whose kind is none of notes, cards,
\* revs raise before the format tag is touched, with or without force: the
\* tag is not set to 'in_progress' and the content is unchanged.  With
\* force the error is the invalid-table error; without force the check of
\* the format tag comes first and raises its own error, the tag of such a
\* table being none of 'anki' and 'ours'.
C33_InvalidTableRaises ==
    [][/\ lastOp' \in {"normalize", "raw"}
       /\ anki_table \notin Tables
       => /\ outcome' = "raised"
          /\ ret' = IF entry'.force THEN <<"Invalid table">> ELSE <<>>
          /\ UNCHANGED <<df, df_format, fields_format>>
          /\ df_format' # "in_progress"]_vars

\* a forced raw on a blank table with rows raised the invalid-table error
C33_Witness ==
    /\ lastOp = "raw" /\ outcome = "raised" /\ ret = <<"Invalid table">>
    /\ entry.force
    /\ anki_table = "None" /\ df_format = "None"
    /\ NRows(df) > 0

\* a row of d holds, in a name column of the table kind, a name the ID
\* resolver has no id for
Unresolved(d, table) ==
    \E c \in name_columns(table), r \in DOMAIN d.cells :
       HasCol(d, c) /\ d.cells[r][c] \notin DOMAIN name2id(c)

C34_WitnessNotes ==
    /\ lastOp = "raw" /\ outcome = "raised" /\ anki_table = "notes"
    /\ HasCol(df, "mid")
    /\ \E r \in DOMAIN df.cells : df.cells[r]["mid"] = NaNNum

\* the cell of row r of the native frame d that normalize maps into the
\* value-mapped column c holds a code that is not a key of the map of c
UnmappedCode(d, table, c, r) ==
    d.cells[r][invert_dict(columns_anki2ours(table))[c]]
      \notin DOMAIN value_maps(c)

\* C35: normalize of a table containing, in a value-mapped column, a code
\* that is not a key of the declared value map completes without raising
\* and stores the missing-value marker in that cell.
C35_UnmappedCodeMissing ==
    [][/\ lastOp' = "normalize" /\ df_format = "anki"
       /\ \E c \in Range(value_map_columns(anki_table)),
             r \in DOMAIN df.cells : UnmappedCode(df, anki_table, c, r)
       => /\ outcome' = "ok" /\ df_format' = "ours"
          /\ \A c \in Range(value_map_columns(anki_table)),
                r \in DOMAIN df.cells :
                UnmappedCode(df, anki_table, c, r)
                  => df'.cells[r][c] = NaN]_vars

\* normalize completed on a cards table holding a type code without a name
\* next to one with a name
C35_Witness ==
    /\ lastOp = "normalize" /\ outcome = "ok" /\ df_format = "ours"
    /\ anki_table = "cards"
    /\ \E r \in DOMAIN df.cells : df.cells[r]["ctype"] = NaN
    /\ \E r \in DOMAIN df.cells : df.cells[r]["ctype"] = "review"

\* C36: fields_as_columns on a table in format 'ours' whose field
\* sub-format is already 'columns', and fields_as_list on one whose
\* sub-format is already 'list', return without raising and without
\* changing the sub-format, the columns or any cell.
C36_AlreadyConverted ==
    [][/\ df_format = "ours"
       /\ \/ lastOp' = "fields_as_columns" /\ fields_format = "columns"
          \/ lastOp' = "fields_as_list" /\ fields_format = "list"
       => /\ outcome' # "raised"
          /\ UNCHANGED <<df, fields_format>>]_vars

\* C37: force=True skips both the check of the format tag and the
\* already-converted early return: normalize(force=True) on a table whose
\* tag is 'ours', and raw(force=True) on one whose tag is 'anki', set the
\* tag to 'in_progress' and run the conversion steps; the call is no no-op,
\* and if a step raises the table is left 'in_progress'.
C37_ForcedReconversion ==
    [][(\/ lastOp' = "normalize" /\ entry'.force /\ df_format = "ours"
        \/ lastOp' = "raw" /\ entry'.force /\ df_format = "anki")
       => /\ outcome' \in {"ok", "raised"}
          /\ outcome' = "raised" => df_format' = "in_progress"
          /\ outcome' = "ok"
             => df_format' = IF lastOp' = "raw" THEN "anki" ELSE "ours"]_vars

\* a forced normalize of a table with rows in format 'ours' raised and
\* left the table 'in_progress'
C37_Witness ==
    /\ lastOp = "normalize" /\ entry.force /\ entry.df_format = "ours"
    /\ outcome = "raised" /\ df_format = "in_progress"
    /\ NRows(df) > 0

\* the same for a forced raw of a table in format 'anki'
C37_WitnessRaw ==
    /\ lastOp = "raw" /\ entry.force /\ entry.df_format = "anki"
    /\ outcome = "raised" /\ df_format = "in_progress"
    /\ NRows(df) > 0

C38_WitnessCopy ==
    /\ lastOp = "add_notes" /\ outcome = "ok"
    /\ NRows(df) = 0 /\ Len(ret) = 1
    /\ NRows(ret[1].df) = 2

\* C39: add_tag is idempotent and never duplicates: applying add_tag(T) to
\* the table a successful add_tag(T) left gives the same tag lists again,
\* and what the call appends to a row holds no tag the row carried and no
\* tag twice.
C39_AddTagIdempotent ==
    [][\A T \in TagLists :
          add_tag(T, TRUE) /\ outcome' = "ok" =>
             /\ \A r \in DOMAIN df'.cells :
                   _add_tags(df'.cells[r]["ntags"], T)
                      = df'.cells[r]["ntags"]
             /\ \A r \in DOMAIN df.cells :
                   LET old == df.cells[r]["ntags"]
                       new == df'.cells[r]["ntags"]
                       added == SubSeq(new, Len(old) + 1, Len(new))
                   IN  /\ SubSeq(new, 1, Len(old)) = old
                       /\ Range(added) \cap Range(old) = {}
                       /\ ~HasDuplicates(added)
                       /\ Range(added) = Range(T) \ Range(old)]_vars

\* add_tag left two rows that carried the tags a and b with the tags a, b
\* and c, each once: c was added, or the call was repeated
C39_Witness ==
    /\ lastOp = "add_tag" /\ outcome = "ok" /\ NRows(df) = 2
    /\ \A r \in DOMAIN df.cells :
          df.cells[r]["ntags"] = << <<"a">>, <<"b">>, <<"c">> >>

====
